---- MODULE Spec2Model ----
(***************************************************************************)
(* Storage layer of the Multiverse browser extension.                      *)
(*                                                                         *)
(* The two chrome.storage partitions are the variables sync and local:     *)
(* each is a function from the keys that are present to their values.      *)
(* StorageManager's methods are operators on a store [sync, local]; the    *)
(* actions apply one whole method to the current store.                    *)
(***************************************************************************)
EXTENDS Integers, Sequences, FiniteSets, TLC

VARIABLES
    sync,       \* chrome.storage.sync : key -> value, present keys only
    local,      \* chrome.storage.local: key -> value, present keys only
    now,        \* the clock Date.now() reads
    nextHl,     \* ordinal of the next highlight a caller creates
    lastOp,     \* the operation that completed last, with its arguments
    pre,        \* the store and clock at the moment lastOp was called
    ret,        \* what lastOp returned
    hlRun,      \* per workspace: the highlights appended since its group was
                \* empty, oldest first, and the cap every one of them saw
    settingsRun,\* the consecutive saveSettings calls: the store before the
                \* first, and the partial objects of the first and the second
    ctx,        \* per execution context: the call in flight, the await it is
                \* at, and what it has read so far; or the finished call
    writes,     \* the contexts whose backend writes landed, in that order
    ui          \* what the popup holds in React state: the workspace list
                \* and the active workspace id it loaded, or the task list
                \* with the processTask calls in flight

vars == <<sync, local, now, nextHl, lastOp, pre, ret, hlRun, settingsRun,
          ctx, writes, ui>>

(***************************************************************************)
(* Bounds of the model.                                                    *)
(***************************************************************************)
MaxAppends == 2     \* appendHighlight calls in a run of Spec
MaxHlRun   == 4     \* appendHighlight calls in a run of SpecHl
MaxCap     == 2     \* largest maxHighlights a caller stores
MaxTime    == 2     \* last instant of the clock
MaxProcessing == 2  \* processTask calls in flight for one task
MaxTabs == 2        \* tabs in the window that is captured

(***************************************************************************)
(* Program constants.                                                      *)
(***************************************************************************)
DefaultMaxHighlights == 50

SETTINGS         == "mv_settings"
ACTIVE_WORKSPACE == "mv_active_workspace"
WORKSPACES       == "mv_workspaces"
TAB_SETS         == "mv_tab_sets"
HIGHLIGHTS       == "mv_highlights"

Null       == "null"     \* null where an id is expected
NullRecord == << >>      \* null where a record is expected

WorkspaceIds == {"w1", "w2"}
TabSetIds    == {"ts1", "ts2"}
Names        == {"Research", "Work"}
TabLists     == {<<>>}
DefaultTabSetName == "Tab Set <date>"

\* `quickNotes_${workspaceId}`, the local key of a workspace's quick note
QuickNoteKey(id) ==
    CASE id = "w1" -> "quickNotes_w1"
      [] id = "w2" -> "quickNotes_w2"

Notes == {"draft"}

(***************************************************************************)
(* Plain objects: get with a fallback, set a key, delete a key, spread.    *)
(***************************************************************************)
EmptyObj == [k \in {} |-> 0]

Get(obj, key, dflt) == IF key \in DOMAIN obj THEN obj[key] ELSE dflt

Put(obj, key, v) ==
    [k \in (DOMAIN obj) \cup {key} |-> IF k = key THEN v ELSE obj[k]]

Remove(obj, key) == [k \in (DOMAIN obj) \ {key} |-> obj[k]]

\* { ...a, ...b }
Spread(a, b) ==
    [k \in (DOMAIN a) \cup (DOMAIN b) |-> IF k \in DOMAIN b THEN b[k] ELSE a[k]]

\* Array.prototype.findIndex on the id, 1-based; 0 when nothing matches
FindIndex(ws, id) ==
    IF \E i \in 1..Len(ws) : ws[i].id = id
    THEN CHOOSE i \in 1..Len(ws) :
            /\ ws[i].id = id
            /\ \A j \in 1..(i - 1) : ws[j].id # id
    ELSE 0

\* Array.prototype.slice(0, n)
Slice(s, n) == SubSeq(s, 1, IF n < Len(s) THEN n ELSE Len(s))

(***************************************************************************)
(* Settings.                                                               *)
(***************************************************************************)
defaultSettings ==
    [notionIntegrationEnabled |-> FALSE,
     focusModeEnabled         |-> FALSE,
     autoSaveTabSets          |-> FALSE,
     theme                    |-> "auto",
     maxHighlights            |-> DefaultMaxHighlights]

\* variant: the stored record as it is, without the defaults under it
GetSettingsNoDefaults(s, readOk) ==
    IF readOk THEN Get(s, SETTINGS, EmptyObj) ELSE EmptyObj

\* getSettings: the stored record spread over the defaults; the defaults
\* alone when the backend read fails (readOk = FALSE)
GetSettings(s, readOk) ==
    IF readOk
    THEN Spread(defaultSettings, Get(s, SETTINGS, EmptyObj))
    ELSE defaultSettings

\* variant: the partial object written in place of the stored record
SaveSettingsReplace(st, settings, readOk) ==
    [st EXCEPT !.sync = Put(st.sync, SETTINGS, settings)]

\* variant: the record is written to the local partition
SaveSettingsToLocal(st, settings, readOk) ==
    LET currentSettings == GetSettings(st.sync, readOk)
        updatedSettings == Spread(currentSettings, settings)
    IN  [st EXCEPT !.local = Put(st.local, SETTINGS, updatedSettings)]

\* saveSettings: the partial spread over getSettings(), written whole
SaveSettingsSt(st, settings, readOk) ==
    LET currentSettings == GetSettings(st.sync, readOk)
        updatedSettings == Spread(currentSettings, settings)
    IN  [st EXCEPT !.sync = Put(st.sync, SETTINGS, updatedSettings)]

(***************************************************************************)
(* Workspaces and the active-workspace pointer.                            *)
(***************************************************************************)
ListWorkspaces(l, readOk) ==
    IF readOk THEN Get(l, WORKSPACES, <<>>) ELSE <<>>

GetWorkspace(l, id, readOk) ==
    LET workspaces == ListWorkspaces(l, readOk)
        i          == FindIndex(workspaces, id)
    IN  IF i > 0 THEN workspaces[i] ELSE NullRecord

GetActiveWorkspace(s, readOk) ==
    IF readOk THEN Get(s, ACTIVE_WORKSPACE, Null) ELSE Null

\* variant: an existing record replaced without refreshing updatedAt
SaveWorkspaceNoStamp(st, workspace, t, readOk) ==
    LET workspaces    == ListWorkspaces(st.local, readOk)
        existingIndex == FindIndex(workspaces, workspace.id)
        updated       == IF existingIndex > 0
                         THEN [workspaces EXCEPT ![existingIndex] = workspace]
                         ELSE Append(workspaces, workspace)
    IN  [st EXCEPT !.local = Put(st.local, WORKSPACES, updated)]

\* variant: an existing record is taken out and the new one put at the end
SaveWorkspaceMoveToEnd(st, workspace, t, readOk) ==
    LET workspaces == ListWorkspaces(st.local, readOk)
        others     == SelectSeq(workspaces, LAMBDA w : w.id # workspace.id)
        updated    == IF FindIndex(workspaces, workspace.id) > 0
                      THEN Append(others, [workspace EXCEPT !.updatedAt = t])
                      ELSE Append(workspaces, workspace)
    IN  [st EXCEPT !.local = Put(st.local, WORKSPACES, updated)]

\* saveWorkspace: upsert by id; t is Date.now() at the replacement
SaveWorkspaceSt(st, workspace, t, readOk) ==
    LET workspaces    == ListWorkspaces(st.local, readOk)
        existingIndex == FindIndex(workspaces, workspace.id)
        updated       == IF existingIndex > 0
                         THEN [workspaces EXCEPT ![existingIndex] =
                                    [workspace EXCEPT !.updatedAt = t]]
                         ELSE Append(workspaces, workspace)
    IN  [st EXCEPT !.local = Put(st.local, WORKSPACES, updated)]

\* variant: the named workspace is flagged, the other flags are kept
SetActiveKeepFlags(st, id, t, readOk) ==
    LET workspaces == ListWorkspaces(st.local, readOk)
        updatedWorkspaces ==
            [i \in 1..Len(workspaces) |->
                [workspaces[i] EXCEPT
                    !.isActive  = @ \/ (workspaces[i].id = id),
                    !.updatedAt = IF workspaces[i].id = id THEN t ELSE @]]
    IN  [sync  |-> IF id = Null THEN Remove(st.sync, ACTIVE_WORKSPACE)
                   ELSE Put(st.sync, ACTIVE_WORKSPACE, id),
         local |-> Put(st.local, WORKSPACES, updatedWorkspaces)]

\* variant: every workspace is stamped, not only the named one
SetActiveStampsAll(st, id, t, readOk) ==
    LET workspaces == ListWorkspaces(st.local, readOk)
        updatedWorkspaces ==
            [i \in 1..Len(workspaces) |->
                [workspaces[i] EXCEPT
                    !.isActive  = (workspaces[i].id = id),
                    !.updatedAt = t]]
    IN  [sync  |-> IF id = Null THEN Remove(st.sync, ACTIVE_WORKSPACE)
                   ELSE Put(st.sync, ACTIVE_WORKSPACE, id),
         local |-> Put(st.local, WORKSPACES, updatedWorkspaces)]

\* setActiveWorkspace: the pointer is written (or removed for null), then
\* every workspace's isActive flag is rewritten
SetActiveWorkspaceSt(st, id, t, readOk) ==
    LET syncAfter  == IF id = Null
                      THEN Remove(st.sync, ACTIVE_WORKSPACE)
                      ELSE Put(st.sync, ACTIVE_WORKSPACE, id)
        workspaces == ListWorkspaces(st.local, readOk)
        updatedWorkspaces ==
            [i \in 1..Len(workspaces) |->
                [workspaces[i] EXCEPT
                    !.isActive  = (workspaces[i].id = id),
                    !.updatedAt = IF workspaces[i].id = id THEN t ELSE @]]
    IN  [sync  |-> syncAfter,
         local |-> Put(st.local, WORKSPACES, updatedWorkspaces)]

(***************************************************************************)
(* Tab sets.                                                               *)
(***************************************************************************)
GetAllTabSets(l) == Get(l, TAB_SETS, <<>>)

GetWorkspaceTabSets(l, workspaceId) ==
    SelectSeq(GetAllTabSets(l), LAMBDA ts : ts.workspaceId = workspaceId)

\* tabSetId stands for `ts_${Date.now()}_${random}`; name = "" is an omitted
\* (falsy) name
SaveTabSetSt(st, tabSetId, workspaceId, tabs, name, t) ==
    LET tabSet == [id          |-> tabSetId,
                   workspaceId |-> workspaceId,
                   name        |-> IF name # "" THEN name ELSE DefaultTabSetName,
                   tabs        |-> tabs,
                   createdAt   |-> t,
                   updatedAt   |-> t]
    IN  [st EXCEPT !.local =
            Put(st.local, TAB_SETS, Append(GetAllTabSets(st.local), tabSet))]

(***************************************************************************)
(* Highlights.                                                             *)
(***************************************************************************)
GetAllHighlights(l) == Get(l, HIGHLIGHTS, EmptyObj)

GetHighlights(l, workspaceId, limit) ==
    Slice(Get(GetAllHighlights(l), workspaceId, <<>>), limit)

\* variant: the default cap whatever the settings say
EffectiveCapIgnoresSetting(settings) == DefaultMaxHighlights

\* settings.maxHighlights || 50
EffectiveCap(settings) ==
    IF "maxHighlights" \in DOMAIN settings /\ settings.maxHighlights # 0
    THEN settings.maxHighlights
    ELSE DefaultMaxHighlights

\* variant: the highlight pushed at the tail before the cut
AppendHighlightAtTail(st, workspaceId, highlight, readOk) ==
    LET allHighlights == GetAllHighlights(st.local)
        maxHighlights == EffectiveCap(GetSettings(st.sync, readOk))
    IN  [st EXCEPT !.local = Put(st.local, HIGHLIGHTS,
            Put(allHighlights, workspaceId,
                Slice(Append(Get(allHighlights, workspaceId, <<>>), highlight),
                      maxHighlights)))]

\* variant: the sequence never cut
AppendHighlightNoCap(st, workspaceId, highlight, readOk) ==
    LET allHighlights == GetAllHighlights(st.local)
    IN  [st EXCEPT !.local = Put(st.local, HIGHLIGHTS,
            Put(allHighlights, workspaceId,
                <<highlight>> \o Get(allHighlights, workspaceId, <<>>)))]

\* appendHighlight: unshift, then slice(0, maxHighlights) when too long
AppendHighlightSt(st, workspaceId, highlight, readOk) ==
    LET allHighlights == GetAllHighlights(st.local)
        unshifted     == <<highlight>> \o Get(allHighlights, workspaceId, <<>>)
        settings      == GetSettings(st.sync, readOk)
        maxHighlights == EffectiveCap(settings)
        capped        == IF Len(unshifted) > maxHighlights
                         THEN Slice(unshifted, maxHighlights)
                         ELSE unshifted
    IN  [st EXCEPT !.local =
            Put(st.local, HIGHLIGHTS, Put(allHighlights, workspaceId, capped))]

(***************************************************************************)
(* deleteWorkspace: four writes one after the other.                       *)
(***************************************************************************)
\* variant: the tab sets and the highlights of the workspace are kept
DeleteWorkspaceKeepDependents(st, id, t) ==
    LET workspaces == ListWorkspaces(st.local, TRUE)
        s1 == [st EXCEPT !.local = Put(st.local, WORKSPACES,
                    SelectSeq(workspaces, LAMBDA w : w.id # id))]
    IN  IF GetActiveWorkspace(s1.sync, TRUE) = id
        THEN SetActiveWorkspaceSt(s1, Null, t, TRUE)
        ELSE s1

\* variant: the quick note of the workspace is removed with it
DeleteWorkspaceWithQuickNote(st, id, t) ==
    LET s1 == DeleteWorkspaceKeepDependents(st, id, t)
        s2 == [s1 EXCEPT !.local = Put(@, TAB_SETS,
                    SelectSeq(GetAllTabSets(s1.local),
                              LAMBDA ts : ts.workspaceId # id))]
        s3 == [s2 EXCEPT !.local = Put(@, HIGHLIGHTS,
                    Remove(GetAllHighlights(s2.local), id))]
    IN  [s3 EXCEPT !.local = Remove(@, QuickNoteKey(id))]

\* variant: the pointer is cleared whichever workspace it names
DeleteWorkspaceAlwaysClears(st, id, t) ==
    LET s1 == [st EXCEPT !.local = Put(@, WORKSPACES,
                    SelectSeq(ListWorkspaces(st.local, TRUE),
                              LAMBDA w : w.id # id))]
        s2 == SetActiveWorkspaceSt(s1, Null, t, TRUE)
        s3 == [s2 EXCEPT !.local = Put(@, TAB_SETS,
                    SelectSeq(GetAllTabSets(s2.local),
                              LAMBDA ts : ts.workspaceId # id))]
    IN  [s3 EXCEPT !.local = Put(@, HIGHLIGHTS,
                    Remove(GetAllHighlights(s3.local), id))]

DeleteWorkspaceSt(st, id, t) ==
    LET workspaces         == ListWorkspaces(st.local, TRUE)
        filteredWorkspaces == SelectSeq(workspaces, LAMBDA w : w.id # id)
        s1 == [st EXCEPT !.local = Put(st.local, WORKSPACES, filteredWorkspaces)]
        activeWorkspace == GetActiveWorkspace(s1.sync, TRUE)
        s2 == IF activeWorkspace = id
              THEN SetActiveWorkspaceSt(s1, Null, t, TRUE)
              ELSE s1
        tabSets         == GetAllTabSets(s2.local)
        filteredTabSets == SelectSeq(tabSets, LAMBDA ts : ts.workspaceId # id)
        s3 == [s2 EXCEPT !.local = Put(s2.local, TAB_SETS, filteredTabSets)]
        highlights         == GetAllHighlights(s3.local)
        filteredHighlights == Remove(highlights, id)
    IN  [s3 EXCEPT !.local = Put(s3.local, HIGHLIGHTS, filteredHighlights)]

(***************************************************************************)
(* The state after installation: both partitions empty.                    *)
(***************************************************************************)
Store == [sync |-> sync, local |-> local]

\* the execution contexts of the extension that share the two partitions
Contexts == {"popup", "background", "content", "options"}

Idle == [op |-> "idle"]

\* the popup before its first loadData
NotLoaded ==
    [workspaces |-> <<>>, activeWorkspaceId |-> Null, focusModeEnabled |-> FALSE]

NoHlRun == [cap |-> 0, hs |-> <<>>]

NoSettingsRun == [n |-> 0, base |-> EmptyObj, first |-> EmptyObj, second |-> EmptyObj]

Init ==
    /\ sync   = EmptyObj
    /\ local  = EmptyObj
    /\ now    = 0
    /\ nextHl = 1
    /\ lastOp = [op |-> "init"]
    /\ pre    = [sync |-> EmptyObj, local |-> EmptyObj, now |-> 0]
    /\ ret    = Null
    /\ hlRun  = [w \in WorkspaceIds |-> NoHlRun]
    /\ settingsRun = NoSettingsRun
    /\ ctx    = [c \in Contexts |-> Idle]
    /\ writes = <<>>
    /\ ui     = NotLoaded

\* one completed call: the store it leaves, what it was, what it returned
Completes(st, op, r) ==
    /\ sync'   = st.sync
    /\ local'  = st.local
    /\ lastOp' = op
    /\ pre'    = [sync |-> sync, local |-> local, now |-> now]
    /\ ret'    = r
    /\ UNCHANGED <<ctx, writes, ui>>

(***************************************************************************)
(* One action per StorageManager method, each running alone to completion  *)
(* with a working backend unless a parameter says a read fails.  t is the  *)
(* instant at which the method reads Date.now(): the clock may have moved  *)
(* on while the method awaited the backend.                                *)
(***************************************************************************)
Tick ==
    /\ now < MaxTime
    /\ now' = now + 1
    /\ UNCHANGED <<sync, local, nextHl, lastOp, pre, ret, hlRun, settingsRun,
                   ctx, writes, ui>>

SaveWorkspace(workspace, t) ==
    /\ now <= t /\ t <= MaxTime
    /\ Completes(SaveWorkspaceSt(Store, workspace, t, TRUE),
                 [op |-> "saveWorkspace", workspace |-> workspace, at |-> t],
                 Null)
    /\ now' = t
    /\ UNCHANGED <<nextHl, hlRun, settingsRun>>

DeleteWorkspace(id) ==
    /\ Completes(DeleteWorkspaceSt(Store, id, now),
                 [op |-> "deleteWorkspace", id |-> id], Null)
    /\ hlRun' = [hlRun EXCEPT ![id] = NoHlRun]
    /\ UNCHANGED <<now, nextHl, settingsRun>>

SetActiveWorkspace(id) ==
    /\ Completes(SetActiveWorkspaceSt(Store, id, now, TRUE),
                 [op |-> "setActiveWorkspace", id |-> id], Null)
    /\ UNCHANGED <<now, nextHl, hlRun, settingsRun>>

\* the generated id (timestamp and random suffix) is one no tab set has
SaveTabSet(tabSetId, workspaceId, tabs, name) ==
    /\ \A i \in 1..Len(GetAllTabSets(local)) :
            GetAllTabSets(local)[i].id # tabSetId
    /\ Completes(SaveTabSetSt(Store, tabSetId, workspaceId, tabs, name, now),
                 [op |-> "saveTabSet", workspaceId |-> workspaceId], tabSetId)
    /\ UNCHANGED <<now, nextHl, hlRun, settingsRun>>

\* the caller's highlight carries the ordinal of the call as its id
AppendHighlight(workspaceId, bound) ==
    /\ nextHl <= bound
    /\ LET highlight == [id |-> nextHl, createdAt |-> now]
           cap       == GetSettings(sync, TRUE).maxHighlights
           run       == hlRun[workspaceId]
       IN  /\ Completes(AppendHighlightSt(Store, workspaceId, highlight, TRUE),
                        [op |-> "appendHighlight", workspaceId |-> workspaceId,
                         highlight |-> highlight], Null)
           /\ hlRun' = [hlRun EXCEPT ![workspaceId] =
                            [cap |-> IF run.hs = <<>> \/ run.cap = cap
                                     THEN cap ELSE -1,
                             hs  |-> Append(run.hs, highlight)]]
    /\ nextHl' = nextHl + 1
    /\ UNCHANGED <<now, settingsRun>>

SaveSettings(settings) ==
    /\ Completes(SaveSettingsSt(Store, settings, TRUE),
                 [op |-> "saveSettings", settings |-> settings], Null)
    /\ settingsRun' =
            IF settingsRun.n = 1
            THEN [settingsRun EXCEPT !.n = 2, !.second = settings]
            ELSE [n |-> 1, base |-> sync, first |-> settings, second |-> EmptyObj]
    /\ UNCHANGED <<now, nextHl, hlRun>>

GetSettingsCall(readOk) ==
    /\ Completes(Store, [op |-> "getSettings", readOk |-> readOk],
                 GetSettings(sync, readOk))
    /\ UNCHANGED <<now, nextHl, hlRun, settingsRun>>

\* variant: both partitions are cleared before the backup is written
ImportDataClearFirst(st, data) ==
    [sync  |-> data.sync,
     local |-> data.local]

\* importData: chrome.storage.*.set(items) assigns the given keys and keeps
\* the others
ImportDataSt(st, data) ==
    [sync  |-> Spread(st.sync, data.sync),
     local |-> Spread(st.local, data.local)]

ImportData(data) ==
    /\ Completes(ImportDataSt(Store, data), [op |-> "importData", data |-> data], Null)
    /\ settingsRun' = NoSettingsRun
    /\ UNCHANGED <<now, nextHl, hlRun>>

(***************************************************************************)
(* Spec: the workspace collection, the pointer, tab sets and highlights.   *)
(* Callers stamp the records they save with the current time.              *)
(***************************************************************************)
NewWorkspaces ==
    [id : WorkspaceIds, name : {"Research"}, createdAt : {now},
     updatedAt : {now}, isActive : BOOLEAN]

Next ==
    \/ \E workspace \in NewWorkspaces : SaveWorkspace(workspace, now)
    \/ \E id \in WorkspaceIds : DeleteWorkspace(id)
    \/ \E id \in WorkspaceIds \cup {Null} : SetActiveWorkspace(id)
    \/ \E tabSetId \in TabSetIds, workspaceId \in WorkspaceIds, tabs \in TabLists :
            SaveTabSet(tabSetId, workspaceId, tabs, "")
    \/ \E workspaceId \in WorkspaceIds : AppendHighlight(workspaceId, MaxAppends)

Spec == Init /\ [][Next]_vars

(***************************************************************************)
(* SpecHl: highlights under a cap that callers change.                     *)
(***************************************************************************)
CapSettings == {[maxHighlights |-> k] : k \in 0..MaxCap}

NextHl ==
    \/ \E workspaceId \in WorkspaceIds : AppendHighlight(workspaceId, MaxHlRun)
    \/ \E settings \in CapSettings : SaveSettings(settings)

SpecHl == Init /\ [][NextHl]_vars

(***************************************************************************)
(* SpecSettings: the settings record, saved in parts, imported in parts,   *)
(* and read with a backend whose read may fail.                            *)
(***************************************************************************)
FocusParts == {EmptyObj} \cup {[focusModeEnabled |-> b] : b \in BOOLEAN}
ThemeParts == {EmptyObj} \cup {[theme |-> th] : th \in {"dark", "light"}}
KeyParts   == {EmptyObj, [openaiApiKey |-> "sk-1"]}

PartialSettings ==
    {Spread(Spread(f, th), k) : f \in FocusParts, th \in ThemeParts, k \in KeyParts}

ImportedSettings == {EmptyObj, [focusModeEnabled |-> TRUE], [theme |-> "dark"]}

NextSettings ==
    \/ \E settings \in PartialSettings : SaveSettings(settings)
    \/ \E readOk \in BOOLEAN : GetSettingsCall(readOk)
    \/ \E stored \in ImportedSettings :
            ImportData([sync |-> [mv_settings |-> stored], local |-> EmptyObj])

SpecSettings == Init /\ [][NextSettings]_vars

(***************************************************************************)
(* SpecTime: workspace records saved while the clock runs; the caller's    *)
(* timestamps are instants up to the time of the call.                     *)
(***************************************************************************)
TimedWorkspaces ==
    [id : WorkspaceIds, name : Names, createdAt : {0},
     updatedAt : 0..now, isActive : BOOLEAN]

NextTime ==
    \/ Tick
    \/ \E workspace \in TimedWorkspaces, t \in 0..MaxTime : SaveWorkspace(workspace, t)

SpecTime == Init /\ [][NextTime]_vars

(***************************************************************************)
(* The methods, await by await.  A context that called a method is at one  *)
(* of its awaits (pc); view holds what its backend reads have returned so  *)
(* far, and every write is computed from view, not from the partitions.    *)
(* ok = FALSE is a backend call that rejects: a rejected set or remove     *)
(* writes nothing.                                                         *)
(***************************************************************************)
NoError == ""

EmptyView == [sync |-> EmptyObj, local |-> EmptyObj]

Rest == <<now, lastOp, pre, ret, hlRun, settingsRun, ui>>

FirstAwait(op) ==
    CASE op = "saveWorkspace"      -> "list"
      [] op = "saveTabSet"         -> "get"
      [] op = "appendHighlight"    -> "get"
      [] op = "saveSettings"       -> "get"
      [] op = "setActiveWorkspace" -> "pointer"
      [] op = "deleteWorkspace"    -> "list"

\* the message of the Error a method's catch block throws
ErrorOf(op) ==
    CASE op = "saveWorkspace"      -> "Failed to save workspace"
      [] op = "saveTabSet"         -> "Failed to save tab set"
      [] op = "appendHighlight"    -> "Failed to append highlight"
      [] op = "saveSettings"       -> "Failed to save settings"
      [] op = "setActiveWorkspace" -> "Failed to set active workspace"
      [] op = "deleteWorkspace"    -> "Failed to delete workspace"

At(c, op, pc) == ctx[c].op = op /\ ctx[c].pc = pc

\* chrome.storage.local.get([key]) into the view; a read whose failure the
\* method swallows leaves the key absent, which reads as the empty value
ReadLocal(view, key, ok) ==
    [view EXCEPT !.local = IF ok /\ key \in DOMAIN local
                           THEN Put(@, key, local[key])
                           ELSE Remove(@, key)]

\* chrome.storage.sync.get([key]) into the view
ReadSync(view, key, ok) ==
    [view EXCEPT !.sync = IF ok /\ key \in DOMAIN sync
                          THEN Put(@, key, sync[key])
                          ELSE Remove(@, key)]

\* another context has taken a step since the call of r began
Interleaved(r) ==
    IF r.op = "idle" THEN r ELSE [r EXCEPT !.alone = FALSE]

\* context c moves on to r
Goes(c, r) ==
    ctx' = [d \in Contexts |-> IF d = c THEN r ELSE Interleaved(ctx[d])]

\* the call of c has settled: resolved (error = NoError) or rejected;
\* failed names the kind of backend call that rejected, if one did, and at
\* the await at which the call settled
Settled(c, error, failed) ==
    [op     |-> "done",
     call   |-> ctx[c].op,
     at     |-> ctx[c].pc,
     arg    |-> ctx[c].arg,
     error  |-> error,
     failed |-> failed,
     view   |-> ctx[c].view,
     start  |-> ctx[c].start,
     alone  |-> ctx[c].alone]

Landed(c) == writes' = Append(SelectSeq(writes, LAMBDA d : d # c), c)

\* variant: the set carries the whole partition as it was when the call
\* began, not the one key
WriteLocalWholePartition(c, key, value) ==
    /\ local' = Put(ctx[c].start.local, key, value)
    /\ Landed(c)
    /\ UNCHANGED sync

WriteLocal(c, key, value) ==
    /\ local' = Put(local, key, value)
    /\ Landed(c)
    /\ UNCHANGED sync

WriteSync(c, key, value) ==
    /\ sync' = Put(sync, key, value)
    /\ Landed(c)
    /\ UNCHANGED local

\* variant: the rejection is swallowed and the call resolves
RejectsSilently(c, failed) ==
    /\ Goes(c, Settled(c, NoError, failed))
    /\ UNCHANGED <<sync, local, writes>>

\* a backend call rejected and the method's catch block rethrows
Rejects(c, failed) ==
    /\ Goes(c, Settled(c, ErrorOf(ctx[c].op), failed))
    /\ UNCHANGED <<sync, local, writes>>

\* a backend read resolved or was swallowed: on to the next await
ReadThen(c, pc, view) ==
    /\ Goes(c, [ctx[c] EXCEPT !.pc = pc, !.view = view])
    /\ UNCHANGED <<sync, local, writes>>

Call(c, op, arg) ==
    /\ ctx[c] = Idle
    /\ ctx' = [ctx EXCEPT ![c] =
                [op |-> op, pc |-> FirstAwait(op), arg |-> arg,
                 view |-> EmptyView, start |-> Store, alone |-> TRUE]]
    /\ nextHl' = IF op = "appendHighlight" THEN nextHl + 1 ELSE nextHl
    /\ UNCHANGED <<sync, local, writes, Rest>>

\* the caller takes the settled promise and the context is free again
Return(c) ==
    /\ ctx[c].op = "done"
    /\ ctx' = [ctx EXCEPT ![c] = Idle]
    /\ UNCHANGED <<sync, local, writes, nextHl, Rest>>

\* every call has settled and the callers take the results
ReturnAll ==
    /\ \A c \in Contexts : ctx[c].op \in {"idle", "done"}
    /\ \E c \in Contexts : ctx[c].op = "done"
    /\ ctx' = [c \in Contexts |-> Idle]
    /\ UNCHANGED <<sync, local, writes, nextHl, Rest>>

\* saveWorkspace: listWorkspaces() swallows a failed read
SaveWorkspace_list(c, ok) ==
    /\ At(c, "saveWorkspace", "list")
    /\ ReadThen(c, "set", ReadLocal(ctx[c].view, WORKSPACES, ok))
    /\ UNCHANGED <<nextHl, Rest>>

\* variant: the collection is listed again at the moment of the set
SaveWorkspace_setFresh(c, ok) ==
    /\ At(c, "saveWorkspace", "set")
    /\ IF ok
       THEN /\ WriteLocal(c, WORKSPACES,
                    SaveWorkspaceSt(Store, ctx[c].arg.workspace, now,
                                    TRUE).local[WORKSPACES])
            /\ Goes(c, Settled(c, NoError, "none"))
       ELSE Rejects(c, "set")
    /\ UNCHANGED <<nextHl, Rest>>

SaveWorkspace_set(c, ok) ==
    /\ At(c, "saveWorkspace", "set")
    /\ IF ok
       THEN /\ WriteLocal(c, WORKSPACES,
                    SaveWorkspaceSt(ctx[c].view, ctx[c].arg.workspace, now,
                                    TRUE).local[WORKSPACES])
            /\ Goes(c, Settled(c, NoError, "none"))
       ELSE Rejects(c, "set")
    /\ UNCHANGED <<nextHl, Rest>>

\* saveTabSet: getAllTabSets() throws on a failed read
SaveTabSet_get(c, ok) ==
    /\ At(c, "saveTabSet", "get")
    /\ IF ok
       THEN ReadThen(c, "set", ReadLocal(ctx[c].view, TAB_SETS, TRUE))
       ELSE Rejects(c, "get")
    /\ UNCHANGED <<nextHl, Rest>>

SaveTabSet_set(c, ok) ==
    /\ At(c, "saveTabSet", "set")
    /\ IF ok
       THEN /\ WriteLocal(c, TAB_SETS,
                    SaveTabSetSt(ctx[c].view, ctx[c].arg.tabSetId,
                                 ctx[c].arg.workspaceId, ctx[c].arg.tabs,
                                 ctx[c].arg.name, now).local[TAB_SETS])
            /\ Goes(c, Settled(c, NoError, "none"))
       ELSE Rejects(c, "set")
    /\ UNCHANGED <<nextHl, Rest>>

\* appendHighlight: getAllHighlights() throws on a failed read, getSettings()
\* swallows one
AppendHighlight_get(c, ok) ==
    /\ At(c, "appendHighlight", "get")
    /\ IF ok
       THEN ReadThen(c, "getSettings", ReadLocal(ctx[c].view, HIGHLIGHTS, TRUE))
       ELSE Rejects(c, "get")
    /\ UNCHANGED <<nextHl, Rest>>

AppendHighlight_getSettings(c, ok) ==
    /\ At(c, "appendHighlight", "getSettings")
    /\ ReadThen(c, "set", ReadSync(ctx[c].view, SETTINGS, ok))
    /\ UNCHANGED <<nextHl, Rest>>

AppendHighlight_set(c, ok) ==
    /\ At(c, "appendHighlight", "set")
    /\ IF ok
       THEN /\ WriteLocal(c, HIGHLIGHTS,
                    AppendHighlightSt(ctx[c].view, ctx[c].arg.workspaceId,
                                      ctx[c].arg.highlight,
                                      TRUE).local[HIGHLIGHTS])
            /\ Goes(c, Settled(c, NoError, "none"))
       ELSE Rejects(c, "set")
    /\ UNCHANGED <<nextHl, Rest>>

\* saveSettings: getSettings() swallows a failed read
SaveSettings_get(c, ok) ==
    /\ At(c, "saveSettings", "get")
    /\ ReadThen(c, "set", ReadSync(ctx[c].view, SETTINGS, ok))
    /\ UNCHANGED <<nextHl, Rest>>

SaveSettings_set(c, ok) ==
    /\ At(c, "saveSettings", "set")
    /\ IF ok
       THEN /\ WriteSync(c, SETTINGS,
                    SaveSettingsSt(ctx[c].view, ctx[c].arg.settings,
                                   TRUE).sync[SETTINGS])
            /\ Goes(c, Settled(c, NoError, "none"))
       ELSE Rejects(c, "set")
    /\ UNCHANGED <<nextHl, Rest>>

\* setActiveWorkspace, called by a context or by its deleteWorkspace with
\* null: the pointer, then the list, then the flags
InSetActive(c, pc) ==
    /\ ctx[c].op \in {"setActiveWorkspace", "deleteWorkspace"}
    /\ ctx[c].pc = pc

ActiveArg(c) ==
    IF ctx[c].op = "deleteWorkspace" THEN Null ELSE ctx[c].arg.id

SetActiveWorkspace_pointer(c, ok) ==
    /\ InSetActive(c, "pointer")
    /\ IF ok
       THEN /\ sync' = IF ActiveArg(c) = Null
                       THEN Remove(sync, ACTIVE_WORKSPACE)
                       ELSE Put(sync, ACTIVE_WORKSPACE, ActiveArg(c))
            /\ Landed(c)
            /\ UNCHANGED local
            /\ Goes(c, [ctx[c] EXCEPT !.pc = "relist"])
       ELSE Rejects(c, "set")
    /\ UNCHANGED <<nextHl, Rest>>

\* variant: the flags are computed from the list the context already holds
SetActiveWorkspace_listHeld(c, ok) ==
    /\ InSetActive(c, "relist")
    /\ ReadThen(c, "flags", ctx[c].view)
    /\ UNCHANGED <<nextHl, Rest>>

SetActiveWorkspace_list(c, ok) ==
    /\ InSetActive(c, "relist")
    /\ ReadThen(c, "flags", ReadLocal(ctx[c].view, WORKSPACES, ok))
    /\ UNCHANGED <<nextHl, Rest>>

SetActiveWorkspace_set(c, ok) ==
    /\ InSetActive(c, "flags")
    /\ IF ok
       THEN /\ WriteLocal(c, WORKSPACES,
                    SetActiveWorkspaceSt(ctx[c].view, ActiveArg(c), now,
                                         TRUE).local[WORKSPACES])
            /\ IF ctx[c].op = "deleteWorkspace"
               THEN Goes(c, [ctx[c] EXCEPT !.pc = "getTabSets"])
               ELSE Goes(c, Settled(c, NoError, "none"))
       ELSE Rejects(c, "set")
    /\ UNCHANGED <<nextHl, Rest>>

\* deleteWorkspace: the collection, the pointer, the tab sets, the highlights
DeleteWorkspace_list(c, ok) ==
    /\ At(c, "deleteWorkspace", "list")
    /\ ReadThen(c, "setWorkspaces", ReadLocal(ctx[c].view, WORKSPACES, ok))
    /\ UNCHANGED <<nextHl, Rest>>

DeleteWorkspace_setWorkspaces(c, ok) ==
    /\ At(c, "deleteWorkspace", "setWorkspaces")
    /\ IF ok
       THEN /\ WriteLocal(c, WORKSPACES,
                    SelectSeq(ListWorkspaces(ctx[c].view.local, TRUE),
                              LAMBDA w : w.id # ctx[c].arg.id))
            /\ Goes(c, [ctx[c] EXCEPT !.pc = "getActive"])
       ELSE Rejects(c, "set")
    /\ UNCHANGED <<nextHl, Rest>>

\* getActiveWorkspace() swallows a failed read and answers null
DeleteWorkspace_getActive(c, ok) ==
    /\ At(c, "deleteWorkspace", "getActive")
    /\ LET view == ReadSync(ctx[c].view, ACTIVE_WORKSPACE, ok)
       IN  ReadThen(c, IF GetActiveWorkspace(view.sync, TRUE) = ctx[c].arg.id
                       THEN "pointer" ELSE "getTabSets", view)
    /\ UNCHANGED <<nextHl, Rest>>

DeleteWorkspace_getTabSets(c, ok) ==
    /\ At(c, "deleteWorkspace", "getTabSets")
    /\ IF ok
       THEN ReadThen(c, "setTabSets", ReadLocal(ctx[c].view, TAB_SETS, TRUE))
       ELSE Rejects(c, "get")
    /\ UNCHANGED <<nextHl, Rest>>

DeleteWorkspace_setTabSets(c, ok) ==
    /\ At(c, "deleteWorkspace", "setTabSets")
    /\ IF ok
       THEN /\ WriteLocal(c, TAB_SETS,
                    SelectSeq(GetAllTabSets(ctx[c].view.local),
                              LAMBDA ts : ts.workspaceId # ctx[c].arg.id))
            /\ Goes(c, [ctx[c] EXCEPT !.pc = "getHighlights"])
       ELSE Rejects(c, "set")
    /\ UNCHANGED <<nextHl, Rest>>

DeleteWorkspace_getHighlights(c, ok) ==
    /\ At(c, "deleteWorkspace", "getHighlights")
    /\ IF ok
       THEN ReadThen(c, "setHighlights", ReadLocal(ctx[c].view, HIGHLIGHTS, TRUE))
       ELSE Rejects(c, "get")
    /\ UNCHANGED <<nextHl, Rest>>

DeleteWorkspace_setHighlights(c, ok) ==
    /\ At(c, "deleteWorkspace", "setHighlights")
    /\ IF ok
       THEN /\ WriteLocal(c, HIGHLIGHTS,
                    Remove(GetAllHighlights(ctx[c].view.local), ctx[c].arg.id))
            /\ Goes(c, Settled(c, NoError, "none"))
       ELSE Rejects(c, "set")
    /\ UNCHANGED <<nextHl, Rest>>

(***************************************************************************)
(* SpecFail: one context calls the single-write mutations one at a time    *)
(* over a backend whose get and set calls may reject.                      *)
(***************************************************************************)
FailWorkspaces ==
    [id : WorkspaceIds, name : {"Research"}, createdAt : {now},
     updatedAt : {now}, isActive : {FALSE}]

FailSettings == {[maxHighlights |-> 1], [theme |-> "dark"]}

NextFail ==
    \/ \E workspace \in FailWorkspaces :
            Call("popup", "saveWorkspace", [workspace |-> workspace])
    \/ \E tabSetId \in {"ts1"}, workspaceId \in WorkspaceIds, tabs \in TabLists :
            /\ \A i \in 1..Len(GetAllTabSets(local)) :
                    GetAllTabSets(local)[i].id # tabSetId
            /\ Call("popup", "saveTabSet",
                    [tabSetId |-> tabSetId, workspaceId |-> workspaceId,
                     tabs |-> tabs, name |-> ""])
    \/ \E workspaceId \in WorkspaceIds :
            /\ nextHl <= MaxAppends
            /\ Call("popup", "appendHighlight",
                    [workspaceId |-> workspaceId,
                     highlight |-> [id |-> nextHl, createdAt |-> now]])
    \/ \E settings \in FailSettings :
            Call("popup", "saveSettings", [settings |-> settings])
    \/ \E ok \in BOOLEAN : SaveWorkspace_list("popup", ok)
    \/ \E ok \in BOOLEAN : SaveWorkspace_set("popup", ok)
    \/ \E ok \in BOOLEAN : SaveTabSet_get("popup", ok)
    \/ \E ok \in BOOLEAN : SaveTabSet_set("popup", ok)
    \/ \E ok \in BOOLEAN : AppendHighlight_get("popup", ok)
    \/ \E ok \in BOOLEAN : AppendHighlight_getSettings("popup", ok)
    \/ \E ok \in BOOLEAN : AppendHighlight_set("popup", ok)
    \/ \E ok \in BOOLEAN : SaveSettings_get("popup", ok)
    \/ \E ok \in BOOLEAN : SaveSettings_set("popup", ok)
    \/ Return("popup")

SpecFail == Init /\ [][NextFail]_vars

(***************************************************************************)
(* The reads with their catch blocks: readOk = FALSE is a backend get that *)
(* rejects.  getAllTabSets() and getAllHighlights() throw; getTabSet,      *)
(* getWorkspaceTabSets and getHighlights catch that and return the empty   *)
(* value.                                                                  *)
(***************************************************************************)
\* variant: the tab set is looked up although the backend get rejected
GetTabSetUncaught(l, id, readOk) ==
    LET allTabSets == GetAllTabSets(l)
        i          == FindIndex(allTabSets, id)
    IN  IF i > 0 THEN allTabSets[i] ELSE NullRecord

GetTabSet(l, id, readOk) ==
    LET allTabSets == GetAllTabSets(l)
        i          == FindIndex(allTabSets, id)
    IN  IF readOk /\ i > 0 THEN allTabSets[i] ELSE NullRecord

GetWorkspaceTabSetsCaught(l, workspaceId, readOk) ==
    IF readOk THEN GetWorkspaceTabSets(l, workspaceId) ELSE <<>>

GetHighlightsCaught(l, workspaceId, limit, readOk) ==
    IF readOk THEN GetHighlights(l, workspaceId, limit) ELSE <<>>

ReadOps ==
    {"listWorkspaces", "getWorkspace", "getActiveWorkspace", "getTabSet",
     "getWorkspaceTabSets", "getHighlights", "getSettings"}

\* what the read returns
ReadResult(op, id, readOk) ==
    CASE op = "listWorkspaces"      -> ListWorkspaces(local, readOk)
      [] op = "getWorkspace"        -> GetWorkspace(local, id, readOk)
      [] op = "getActiveWorkspace"  -> GetActiveWorkspace(sync, readOk)
      [] op = "getTabSet"           -> GetTabSet(local, id, readOk)
      [] op = "getWorkspaceTabSets" -> GetWorkspaceTabSetsCaught(local, id, readOk)
      [] op = "getHighlights"       ->
            GetHighlightsCaught(local, id, DefaultMaxHighlights, readOk)
      [] op = "getSettings"         -> GetSettings(sync, readOk)

\* the ids a caller passes to the read
ReadArgs(op) ==
    CASE op \in {"listWorkspaces", "getActiveWorkspace", "getSettings"} -> {Null}
      [] op = "getTabSet" -> TabSetIds
      [] OTHER -> WorkspaceIds

ReadCall(op, id, readOk) ==
    /\ Completes(Store, [op |-> op, id |-> id, readOk |-> readOk],
                 ReadResult(op, id, readOk))
    /\ UNCHANGED <<now, nextHl, hlRun, settingsRun>>

(***************************************************************************)
(* SpecRead: a store filled by completed calls and read over a backend     *)
(* whose get may reject.                                                   *)
(***************************************************************************)
NextRead ==
    \/ \E workspace \in FailWorkspaces : SaveWorkspace(workspace, now)
    \/ \E id \in WorkspaceIds : SetActiveWorkspace(id)
    \/ \E tabSetId \in {"ts1"}, workspaceId \in WorkspaceIds, tabs \in TabLists :
            SaveTabSet(tabSetId, workspaceId, tabs, "")
    \/ \E workspaceId \in WorkspaceIds : AppendHighlight(workspaceId, MaxAppends)
    \/ \E stored \in ImportedSettings :
            ImportData([sync |-> [mv_settings |-> stored], local |-> EmptyObj])
    \/ \E op \in ReadOps, readOk \in BOOLEAN :
            \E id \in ReadArgs(op) : ReadCall(op, id, readOk)

SpecRead == Init /\ [][NextRead]_vars

(***************************************************************************)
(* SpecRace: the popup and the background each call saveWorkspace once,    *)
(* for different ids, over a store that holds no workspace or one.         *)
(***************************************************************************)
RaceWorkspaces ==
    [id : WorkspaceIds, name : Names, createdAt : {0}, updatedAt : {0},
     isActive : {FALSE}]

InitRace ==
    /\ sync   = EmptyObj
    /\ local  \in {EmptyObj} \cup
                  {[mv_workspaces |-> <<w>>] : w \in RaceWorkspaces}
    /\ now    = 0
    /\ nextHl = 1
    /\ lastOp = [op |-> "init"]
    /\ pre    = [sync |-> EmptyObj, local |-> EmptyObj, now |-> 0]
    /\ ret    = Null
    /\ hlRun  = [w \in WorkspaceIds |-> NoHlRun]
    /\ settingsRun = NoSettingsRun
    /\ ctx    = [c \in Contexts |-> Idle]
    /\ writes = <<>>
    /\ ui     = NotLoaded

Racers == {"popup", "background"}

\* the other racer has not called yet, or called with another id
OtherId(c, id) ==
    \A d \in Racers \ {c} :
        ctx[d].op \in {"saveWorkspace", "done"} => ctx[d].arg.workspace.id # id

NextRace ==
    \/ \E c \in Racers, workspace \in RaceWorkspaces :
            /\ OtherId(c, workspace.id)
            /\ Call(c, "saveWorkspace", [workspace |-> workspace])
    \/ \E c \in Racers : SaveWorkspace_list(c, TRUE)
    \/ \E c \in Racers : SaveWorkspace_set(c, TRUE)

SpecRace == InitRace /\ [][NextRace]_vars

(***************************************************************************)
(* SpecMix: four contexts, one call each, each writing another record      *)
(* type: the popup saves a workspace, the background a tab set, the        *)
(* content script appends a highlight, the options page saves settings.    *)
(* The store they start from holds one workspace with two highlights.      *)
(***************************************************************************)
MixLocal ==
    [mv_workspaces |-> <<[id |-> "w1", name |-> "Research", createdAt |-> 0,
                          updatedAt |-> 0, isActive |-> FALSE]>>,
     mv_highlights |-> [w1 |-> <<[id |-> 2, createdAt |-> 0],
                                 [id |-> 1, createdAt |-> 0]>>]]

MixSync == {EmptyObj, [mv_settings |-> Spread(defaultSettings, [theme |-> "light"])]}

InitMix ==
    /\ sync   \in MixSync
    /\ local  = MixLocal
    /\ now    = 0
    /\ nextHl = 3
    /\ lastOp = [op |-> "init"]
    /\ pre    = [sync |-> sync, local |-> local, now |-> 0]
    /\ ret    = Null
    /\ hlRun  = [w \in WorkspaceIds |-> NoHlRun]
    /\ settingsRun = NoSettingsRun
    /\ ctx    = [c \in Contexts |-> Idle]
    /\ writes = <<>>
    /\ ui     = NotLoaded

NextMix ==
    \/ \E workspace \in RaceWorkspaces :
            Call("popup", "saveWorkspace", [workspace |-> workspace])
    \/ Call("background", "saveTabSet",
            [tabSetId |-> "ts1", workspaceId |-> "w1", tabs |-> <<>>,
             name |-> ""])
    \/ Call("content", "appendHighlight",
            [workspaceId |-> "w1",
             highlight |-> [id |-> nextHl, createdAt |-> now]])
    \/ \E settings \in FailSettings :
            Call("options", "saveSettings", [settings |-> settings])
    \/ SaveWorkspace_list("popup", TRUE)
    \/ SaveWorkspace_set("popup", TRUE)
    \/ SaveTabSet_get("background", TRUE)
    \/ SaveTabSet_set("background", TRUE)
    \/ AppendHighlight_get("content", TRUE)
    \/ AppendHighlight_getSettings("content", TRUE)
    \/ AppendHighlight_set("content", TRUE)
    \/ SaveSettings_get("options", TRUE)
    \/ SaveSettings_set("options", TRUE)

SpecMix == InitMix /\ [][NextMix]_vars

(***************************************************************************)
(* SpecRecover: the popup and the background call setActiveWorkspace and   *)
(* deleteWorkspace, interleaved, over a backend that may reject.  The      *)
(* background calls while the store is as the run began with it, the popup *)
(* at any time, again and again; callers take their results once every     *)
(* call has settled.  The store the run begins with holds two workspaces,  *)
(* each with a tab set and a highlight, the first one active.              *)
(***************************************************************************)
RecoverLocal ==
    [mv_workspaces |-> <<[id |-> "w1", name |-> "Research", createdAt |-> 0,
                          updatedAt |-> 0, isActive |-> TRUE],
                         [id |-> "w2", name |-> "Work", createdAt |-> 0,
                          updatedAt |-> 0, isActive |-> FALSE]>>,
     mv_tab_sets   |-> <<[id |-> "ts1", workspaceId |-> "w1",
                          name |-> DefaultTabSetName, tabs |-> <<>>,
                          createdAt |-> 0, updatedAt |-> 0],
                         [id |-> "ts2", workspaceId |-> "w2",
                          name |-> DefaultTabSetName, tabs |-> <<>>,
                          createdAt |-> 0, updatedAt |-> 0]>>,
     mv_highlights |-> [w1 |-> <<[id |-> 1, createdAt |-> 0]>>,
                        w2 |-> <<[id |-> 2, createdAt |-> 0]>>]]

InitRecover ==
    /\ sync   = [mv_active_workspace |-> "w1"]
    /\ local  = RecoverLocal
    /\ now    = 0
    /\ nextHl = 3
    /\ lastOp = [op |-> "init"]
    /\ pre    = [sync |-> sync, local |-> local, now |-> 0]
    /\ ret    = Null
    /\ hlRun  = [w \in WorkspaceIds |-> NoHlRun]
    /\ settingsRun = NoSettingsRun
    /\ ctx    = [c \in Contexts |-> Idle]
    /\ writes = <<>>
    /\ ui     = NotLoaded

Recoverers == {"popup", "background"}

\* no write has changed the store the run began with
AsInstalled == Store = [sync |-> pre.sync, local |-> pre.local]

NextRecover ==
    \/ \E c \in Recoverers, id \in WorkspaceIds \cup {Null} :
            /\ c = "background" => AsInstalled
            /\ Call(c, "setActiveWorkspace", [id |-> id])
    \/ \E c \in Recoverers, id \in WorkspaceIds :
            /\ c = "background" => AsInstalled
            /\ Call(c, "deleteWorkspace", [id |-> id])
    \/ \E c \in Recoverers, ok \in BOOLEAN : SetActiveWorkspace_pointer(c, ok)
    \/ \E c \in Recoverers, ok \in BOOLEAN : SetActiveWorkspace_list(c, ok)
    \/ \E c \in Recoverers, ok \in BOOLEAN : SetActiveWorkspace_set(c, ok)
    \/ \E c \in Recoverers, ok \in BOOLEAN : DeleteWorkspace_list(c, ok)
    \/ \E c \in Recoverers, ok \in BOOLEAN : DeleteWorkspace_setWorkspaces(c, ok)
    \/ \E c \in Recoverers, ok \in BOOLEAN : DeleteWorkspace_getActive(c, ok)
    \/ \E c \in Recoverers, ok \in BOOLEAN : DeleteWorkspace_getTabSets(c, ok)
    \/ \E c \in Recoverers, ok \in BOOLEAN : DeleteWorkspace_setTabSets(c, ok)
    \/ \E c \in Recoverers, ok \in BOOLEAN : DeleteWorkspace_getHighlights(c, ok)
    \/ \E c \in Recoverers, ok \in BOOLEAN : DeleteWorkspace_setHighlights(c, ok)
    \/ ReturnAll

SpecRecover == InitRecover /\ [][NextRecover]_vars

(***************************************************************************)
(* SpecOverlap: the popup and the background each make one call over a     *)
(* working backend, and the two calls overlap at their awaits.  The popup  *)
(* activates or deletes a workspace; the background activates one, saves a *)
(* tab set or appends a highlight.  The store they begin with is the one   *)
(* of SpecRecover.                                                         *)
(***************************************************************************)
NextOverlap ==
    \/ \E c \in Recoverers, id \in WorkspaceIds :
            Call(c, "setActiveWorkspace", [id |-> id])
    \/ \E id \in WorkspaceIds : Call("popup", "deleteWorkspace", [id |-> id])
    \/ \E workspaceId \in WorkspaceIds, tabs \in TabLists :
            Call("background", "saveTabSet",
                 [tabSetId |-> "ts3", workspaceId |-> workspaceId,
                  tabs |-> tabs, name |-> ""])
    \/ \E workspaceId \in WorkspaceIds :
            Call("background", "appendHighlight",
                 [workspaceId |-> workspaceId,
                  highlight |-> [id |-> nextHl, createdAt |-> now]])
    \/ \E c \in Recoverers : SetActiveWorkspace_pointer(c, TRUE)
    \/ \E c \in Recoverers : SetActiveWorkspace_list(c, TRUE)
    \/ \E c \in Recoverers : SetActiveWorkspace_set(c, TRUE)
    \/ DeleteWorkspace_list("popup", TRUE)
    \/ DeleteWorkspace_setWorkspaces("popup", TRUE)
    \/ DeleteWorkspace_getActive("popup", TRUE)
    \/ DeleteWorkspace_getTabSets("popup", TRUE)
    \/ DeleteWorkspace_setTabSets("popup", TRUE)
    \/ DeleteWorkspace_getHighlights("popup", TRUE)
    \/ DeleteWorkspace_setHighlights("popup", TRUE)
    \/ SaveTabSet_get("background", TRUE)
    \/ SaveTabSet_set("background", TRUE)
    \/ AppendHighlight_get("background", TRUE)
    \/ AppendHighlight_getSettings("background", TRUE)
    \/ AppendHighlight_set("background", TRUE)

SpecOverlap == InitRecover /\ [][NextOverlap]_vars

(***************************************************************************)
(* exportData, and SpecBackup: a store filled by completed calls, exported *)
(* and imported.                                                           *)
(***************************************************************************)
\* variant: the two partitions change places in the export
ExportDataSwapped(st, t) ==
    [sync |-> st.local, local |-> st.sync, exportedAt |-> t, version |-> "1.0.0"]

\* exportData: get(null) of both partitions, stamped
ExportData(st, t) ==
    [sync |-> st.sync, local |-> st.local, exportedAt |-> t, version |-> "1.0.0"]

ExportDataCall ==
    /\ Completes(Store, [op |-> "exportData"], ExportData(Store, now))
    /\ UNCHANGED <<now, nextHl, hlRun, settingsRun>>

\* importData(await exportData()): the export has just returned
ImportExported ==
    /\ lastOp.op = "exportData"
    /\ Completes(ImportDataSt(Store, ret),
                 [op |-> "importData", data |-> ret, exported |-> TRUE], Null)
    /\ settingsRun' = NoSettingsRun
    /\ UNCHANGED <<now, nextHl, hlRun>>

\* backups that hold some of the keys
Snapshots ==
    {[sync  |-> [mv_settings |-> [theme |-> "dark"]],
      local |-> EmptyObj],
     [sync  |-> EmptyObj,
      local |-> [mv_workspaces |-> <<[id |-> "w2", name |-> "Work",
                                      createdAt |-> 0, updatedAt |-> 0,
                                      isActive |-> FALSE]>>]],
     [sync  |-> [mv_active_workspace |-> "w2"],
      local |-> [mv_workspaces |-> <<[id |-> "w2", name |-> "Work",
                                      createdAt |-> 0, updatedAt |-> 0,
                                      isActive |-> TRUE]>>,
                 mv_highlights |-> EmptyObj]]}

NextBackup ==
    \/ \E workspace \in FailWorkspaces : SaveWorkspace(workspace, now)
    \/ \E id \in WorkspaceIds : SetActiveWorkspace(id)
    \/ \E tabSetId \in {"ts1"}, workspaceId \in WorkspaceIds, tabs \in TabLists :
            SaveTabSet(tabSetId, workspaceId, tabs, "")
    \/ \E workspaceId \in WorkspaceIds : AppendHighlight(workspaceId, MaxAppends)
    \/ \E data \in Snapshots : ImportData(data)
    \/ ExportDataCall
    \/ ImportExported

SpecBackup == Init /\ [][NextBackup]_vars

(***************************************************************************)
(* The legacy facade ExtensionStorage over the StorageManager, and the UI  *)
(* handlers that go through it.                                            *)
(***************************************************************************)
Undefined == "undefined"

LegacyKeys == {"workspaces", "tabSets", "savedTexts", "activeWorkspaceId", "config"}

QuickNoteKeys == {QuickNoteKey(id) : id \in WorkspaceIds}

\* Object.values(highlights).flat(), the groups taken in the order of
\* WorkspaceIds
RECURSIVE Flat(_, _)
Flat(highlights, ids) ==
    IF ids = {} THEN <<>>
    ELSE LET id == CHOOSE x \in ids : TRUE
         IN  Get(highlights, id, <<>>) \o Flat(highlights, ids \ {id})

ExtensionStorageGet(st, key) ==
    CASE key = "workspaces"        -> ListWorkspaces(st.local, TRUE)
      [] key = "activeWorkspaceId" -> GetActiveWorkspace(st.sync, TRUE)
      [] key = "config"            -> GetSettings(st.sync, TRUE)
      [] key = "tabSets"           -> GetAllTabSets(st.local)
      [] key = "savedTexts"        ->
            Flat(GetAllHighlights(st.local), DOMAIN GetAllHighlights(st.local))
      [] key \in QuickNoteKeys     -> Get(st.local, key, Undefined)
      [] OTHER                     -> Undefined

\* the keys without a case, quick notes apart, fall through the default
\* branch and nothing is written
ExtensionStorageSet(st, key, value, t) ==
    CASE key = "workspaces"        -> [st EXCEPT !.local = Put(@, WORKSPACES, value)]
      [] key = "activeWorkspaceId" -> SetActiveWorkspaceSt(st, value, t, TRUE)
      [] key = "config"            -> SaveSettingsSt(st, value, TRUE)
      [] key \in QuickNoteKeys     -> [st EXCEPT !.local = Put(@, key, value)]
      [] OTHER                     -> st

ExtensionStorageRemove(st, key, t) ==
    IF key = "activeWorkspaceId"
    THEN SetActiveWorkspaceSt(st, Null, t, TRUE)
    ELSE [st EXCEPT !.local = Remove(@, key)]

\* one completed UI handler or facade call
UiCompletes(st, op, r, held) ==
    /\ sync'   = st.sync
    /\ local'  = st.local
    /\ lastOp' = op
    /\ pre'    = [sync |-> sync, local |-> local, now |-> now]
    /\ ret'    = r
    /\ ui'     = held
    /\ UNCHANGED <<now, nextHl, hlRun, settingsRun, ctx, writes>>

\* what loadData puts into React state: the list, the pointer and the
\* focus-mode flag of the settings
Loaded(st) ==
    [workspaces        |-> ExtensionStorageGet(st, "workspaces"),
     activeWorkspaceId |-> ExtensionStorageGet(st, "activeWorkspaceId"),
     focusModeEnabled  |-> ExtensionStorageGet(st, "config").focusModeEnabled]

\* loadData of the popup
LoadData == UiCompletes(Store, [op |-> "loadData"], Null, Loaded(Store))

\* the ids of the workspaces the UI shows
Shown == {ui.workspaces[i].id : i \in 1..Len(ui.workspaces)}

\* useWorkspaces.deleteWorkspace
UseWorkspacesDeleteWorkspace(id) ==
    /\ id \in Shown
    /\ LET updatedWorkspaces == SelectSeq(ui.workspaces, LAMBDA w : w.id # id)
           s1 == IF ui.activeWorkspaceId = id
                 THEN ExtensionStorageRemove(Store, "activeWorkspaceId", now)
                 ELSE Store
           s2 == ExtensionStorageSet(s1, "workspaces", updatedWorkspaces, now)
       IN  UiCompletes(s2, [op |-> "ui.deleteWorkspace", id |-> id,
                            via |-> "useWorkspaces"], Null,
                       [ui EXCEPT !.workspaces        = updatedWorkspaces,
                                  !.activeWorkspaceId =
                                        IF @ = id THEN Null ELSE @])

\* WorkspaceManager.handleDeleteWorkspace, confirmed by the user, with the
\* reload it asks for
HandleDeleteWorkspace(id) ==
    /\ id \in Shown
    /\ LET updatedWorkspaces == SelectSeq(ui.workspaces, LAMBDA w : w.id # id)
           s1 == ExtensionStorageSet(Store, "workspaces", updatedWorkspaces, now)
       IN  UiCompletes(s1, [op |-> "ui.deleteWorkspace", id |-> id,
                            via |-> "WorkspaceManager"], Null, Loaded(s1))

\* the value a caller of the facade passes for a key: the UI's patterns
LegacyValues(key) ==
    CASE key = "workspaces" ->
            {Append(ui.workspaces, w) : w \in {x \in FailWorkspaces : x.id \notin Shown}}
      [] key = "activeWorkspaceId" -> WorkspaceIds
      [] key = "config" ->
            {Spread(ExtensionStorageGet(Store, "config"), [focusModeEnabled |-> b]) :
                b \in BOOLEAN}
      [] key = "tabSets" ->
            {Append(ExtensionStorageGet(Store, "tabSets"),
                    [id |-> tabSetId, workspaceId |-> w, name |-> "Reading",
                     tabs |-> <<>>, createdAt |-> now, updatedAt |-> now]) :
                tabSetId \in {"ts2"}, w \in WorkspaceIds}
      [] key = "savedTexts" ->
            {Append(ExtensionStorageGet(Store, "savedTexts"),
                    [id |-> nextHl, workspaceId |-> w, createdAt |-> now]) :
                w \in WorkspaceIds}

\* ExtensionStorage.set(key, value)
LegacySet(key, value) ==
    UiCompletes(ExtensionStorageSet(Store, key, value, now),
                [op |-> "ExtensionStorage.set", key |-> key, value |-> value],
                Null, ui)

(***************************************************************************)
(* SpecUi: a store filled through the StorageManager, shown by the popup   *)
(* and changed through the legacy facade.                                  *)
(***************************************************************************)
NextUi ==
    \/ \E workspace \in FailWorkspaces : SaveWorkspace(workspace, now)
    \/ \E workspaceId \in WorkspaceIds, tabs \in TabLists :
            SaveTabSet("ts1", workspaceId, tabs, "")
    \/ AppendHighlight("w1", MaxAppends)
    \/ LoadData
    \/ \E id \in WorkspaceIds : UseWorkspacesDeleteWorkspace(id)
    \/ \E id \in WorkspaceIds : HandleDeleteWorkspace(id)
    \/ \E key \in LegacyKeys : \E value \in LegacyValues(key) : LegacySet(key, value)

SpecUi == Init /\ [][NextUi]_vars

(***************************************************************************)
(* The useWorkspaces hook of the popup.  Its callbacks compute from the    *)
(* list, the pointer and the focus flag held in React state when they were *)
(* created, update that state optimistically and write through the legacy  *)
(* facade; each runs alone over a working backend.                         *)
(***************************************************************************)
Primers == {"notes"}

FOCUS_MODE_STATE == "mv_focus_mode_state"

\* useWorkspaces.createWorkspace: the held list with createWorkspace(name)
\* appended, written whole; the generated id is one no workspace has
UseWorkspacesCreateWorkspace(id, name) ==
    /\ id \notin Shown
    /\ FindIndex(ListWorkspaces(local, TRUE), id) = 0
    /\ LET newWorkspace == [id |-> id, name |-> name, createdAt |-> now,
                            updatedAt |-> now, isActive |-> FALSE]
           updatedWorkspaces == Append(ui.workspaces, newWorkspace)
       IN  UiCompletes(ExtensionStorageSet(Store, "workspaces",
                                           updatedWorkspaces, now),
                       [op |-> "useWorkspaces.createWorkspace", id |-> id],
                       Null, [ui EXCEPT !.workspaces = updatedWorkspaces])

\* the held list with one workspace renamed and stamped
Renamed(workspaces, id, newName, t) ==
    [i \in 1..Len(workspaces) |->
        IF workspaces[i].id = id
        THEN [workspaces[i] EXCEPT !.name = newName, !.updatedAt = t]
        ELSE workspaces[i]]

\* useWorkspaces.renameWorkspace
UseWorkspacesRenameWorkspace(id, newName) ==
    /\ id \in Shown
    /\ LET updatedWorkspaces == Renamed(ui.workspaces, id, newName, now)
       IN  UiCompletes(ExtensionStorageSet(Store, "workspaces",
                                           updatedWorkspaces, now),
                       [op |-> "useWorkspaces.renameWorkspace", id |-> id],
                       Null, [ui EXCEPT !.workspaces = updatedWorkspaces])

\* useWorkspaces.setActiveWorkspace: the held pointer, and the facade's
\* set('activeWorkspaceId'); the held list is not touched
UseWorkspacesSetActiveWorkspace(id) ==
    /\ id \in Shown
    /\ UiCompletes(ExtensionStorageSet(Store, "activeWorkspaceId", id, now),
                   [op |-> "useWorkspaces.setActiveWorkspace", id |-> id],
                   Null, [ui EXCEPT !.activeWorkspaceId = id])

\* handleUpdatePrimer of the popup: renameWorkspace with the name as it is,
\* then saveWorkspace of the held record with the primer
HandleUpdatePrimer(primer) ==
    /\ ui.activeWorkspaceId # Null
    /\ ui.activeWorkspaceId \in Shown
    /\ LET currentWorkspace ==
                ui.workspaces[FindIndex(ui.workspaces, ui.activeWorkspaceId)]
           updatedWorkspace ==
                Spread(currentWorkspace,
                       [contextPrimer |-> primer, updatedAt |-> now])
           updatedWorkspaces ==
                Renamed(ui.workspaces, ui.activeWorkspaceId,
                        updatedWorkspace.name, now)
           s1 == ExtensionStorageSet(Store, "workspaces", updatedWorkspaces, now)
           s2 == SaveWorkspaceSt(s1, updatedWorkspace, now, TRUE)
       IN  UiCompletes(s2, [op |-> "handleUpdatePrimer", primer |-> primer],
                       Null, [ui EXCEPT !.workspaces = updatedWorkspaces])

\* toggleFocusMode of the background worker with the toggleFocusMode case
\* of handleMessage: the flag of its focus-mode state is flipped and saved,
\* or, when enabling or disabling throws (toggled = FALSE), left as it is
HandleMessageToggleFocusMode(st, toggled) ==
    LET enabled == Get(st.local, FOCUS_MODE_STATE, [enabled |-> FALSE]).enabled
    IN  IF toggled
        THEN [st |-> [st EXCEPT !.local =
                        Put(@, FOCUS_MODE_STATE, [enabled |-> ~enabled])],
              response |-> [success |-> TRUE, enabled |-> ~enabled]]
        ELSE [st |-> st,
              response |-> [success |-> FALSE, enabled |-> enabled]]

\* the flag useWorkspaces.toggleFocusMode ends with: response.enabled, or,
\* from the catch block, the negation of the flag the callback was created
\* with
ToggleFocusModeEnds(focusModeEnabled, sendOk, response) ==
    IF sendOk /\ response.success THEN response.enabled ELSE ~focusModeEnabled

\* useWorkspaces.toggleFocusMode; sendOk = FALSE is a sendMessage that
\* rejects before the background worker has handled the request
UseWorkspacesToggleFocusMode(sendOk, toggled) ==
    /\ ui.activeWorkspaceId # Null
    /\ LET handled == IF sendOk
                      THEN HandleMessageToggleFocusMode(Store, toggled)
                      ELSE [st |-> Store, response |-> [success |-> FALSE,
                                                        enabled |-> FALSE]]
       IN  UiCompletes(handled.st,
                       [op |-> "useWorkspaces.toggleFocusMode",
                        focusModeEnabled |-> ui.focusModeEnabled,
                        failed |-> ~(sendOk /\ handled.response.success)],
                       Null,
                       [ui EXCEPT !.focusModeEnabled =
                            ToggleFocusModeEnds(ui.focusModeEnabled, sendOk,
                                                handled.response)])

NextHook ==
    \/ LoadData
    \/ \E id \in WorkspaceIds : UseWorkspacesCreateWorkspace(id, "Research")
    \/ \E id \in WorkspaceIds : UseWorkspacesRenameWorkspace(id, "Work")
    \/ \E id \in WorkspaceIds : UseWorkspacesDeleteWorkspace(id)
    \/ \E id \in WorkspaceIds : UseWorkspacesSetActiveWorkspace(id)
    \/ \E primer \in Primers : HandleUpdatePrimer(primer)
    \/ \E sendOk \in BOOLEAN, toggled \in BOOLEAN :
            UseWorkspacesToggleFocusMode(sendOk, toggled)

SpecHook == Init /\ [][NextHook]_vars

(***************************************************************************)
(* ExtensionStorage.get over a backend whose get may reject.  The reads of *)
(* the StorageManager that have a catch block answer their empty value;    *)
(* getAllTabSets(), getAllHighlights() and the raw get of a quick note     *)
(* have none, and the facade has none around them.                         *)
(***************************************************************************)
ExtensionStorageGetRejects(key, readOk) ==
    ~readOk /\ key \in {"tabSets", "savedTexts"} \cup QuickNoteKeys

\* what the facade's get resolves to when it does not reject
ExtensionStorageGetOver(st, key, readOk) ==
    CASE key = "workspaces"        -> ListWorkspaces(st.local, readOk)
      [] key = "activeWorkspaceId" -> GetActiveWorkspace(st.sync, readOk)
      [] key = "config"            -> GetSettings(st.sync, readOk)
      [] OTHER                     -> ExtensionStorageGet(st, key)

\* ExtensionStorage.get(key)
LegacyGet(key, readOk) ==
    UiCompletes(Store,
                [op |-> "ExtensionStorage.get", key |-> key, readOk |-> readOk,
                 rejected |-> ExtensionStorageGetRejects(key, readOk)],
                IF ExtensionStorageGetRejects(key, readOk)
                THEN Null
                ELSE ExtensionStorageGetOver(Store, key, readOk),
                ui)

(***************************************************************************)
(* SpecFacade: a store filled through the StorageManager, quick notes      *)
(* written through the facade for any workspace id, workspaces deleted,    *)
(* and the facade's get over a backend whose get may reject.               *)
(***************************************************************************)
NextFacade ==
    \/ \E workspace \in FailWorkspaces : SaveWorkspace(workspace, now)
    \/ \E id \in WorkspaceIds : SetActiveWorkspace(id)
    \/ \E workspaceId \in WorkspaceIds, tabs \in TabLists :
            SaveTabSet("ts1", workspaceId, tabs, "")
    \/ \E workspaceId \in WorkspaceIds : AppendHighlight(workspaceId, MaxAppends)
    \/ \E id \in WorkspaceIds : DeleteWorkspace(id)
    \/ \E id \in WorkspaceIds, note \in Notes : LegacySet(QuickNoteKey(id), note)
    \/ \E key \in LegacyKeys \cup QuickNoteKeys, readOk \in BOOLEAN :
            LegacyGet(key, readOk)

SpecFacade == Init /\ [][NextFacade]_vars

(***************************************************************************)
(* Tasks: the background worker keeps them under the local key mv_tasks    *)
(* and answers the popup's messages; the popup's useTasks hook holds a     *)
(* copy in React state.                                                    *)
(***************************************************************************)
TASKS == "mv_tasks"

TaskIds == {"t1", "t2"}

\* what summarizeInContext resolves to
Summary == [summary |-> "s", key_points |-> <<>>, actions |-> <<>>]

\* getAllTasks: a failed read is swallowed
GetAllTasks(l, readOk) == IF readOk THEN Get(l, TASKS, <<>>) ELSE <<>>

GetTasks(l, workspaceId) ==
    SelectSeq(GetAllTasks(l, TRUE), LAMBDA task : task.workspaceId = workspaceId)

SaveTaskSt(st, task) ==
    [st EXCEPT !.local = Put(@, TASKS, Append(GetAllTasks(st.local, TRUE), task))]

\* updateTask: the updates spread over the stored task, whatever its status
UpdateTaskSt(st, taskId, updates, t) ==
    LET allTasks  == GetAllTasks(st.local, TRUE)
        taskIndex == FindIndex(allTasks, taskId)
    IN  IF taskIndex > 0
        THEN [st EXCEPT !.local = Put(@, TASKS,
                [allTasks EXCEPT ![taskIndex] =
                    Spread(Spread(@, updates), [updatedAt |-> t])])]
        ELSE st

\* handleMessage: the store it leaves and the response it sends; an action
\* without a case gets the default answer
HandleMessage(st, action, data, t) ==
    CASE action = "getTasks" ->
            [st |-> st,
             response |-> [success |-> TRUE,
                           tasks |-> GetTasks(st.local, data.workspaceId)]]
      [] action = "updateTask" ->
            [st |-> UpdateTaskSt(st, data.taskId, data.updates, t),
             response |-> [success |-> TRUE]]
      [] OTHER ->
            [st |-> st,
             response |-> [success |-> FALSE, error |-> "Unknown action"]]

\* handleSummarizeAction: a task for the active workspace, queued
HandleSummarizeAction(taskId, taskType) ==
    /\ GetActiveWorkspace(sync, TRUE) # Null
    /\ FindIndex(GetAllTasks(local, TRUE), taskId) = 0
    /\ LET task == [id          |-> taskId,
                    type        |-> taskType,
                    workspaceId |-> GetActiveWorkspace(sync, TRUE),
                    content     |-> "text",
                    url         |-> "https://a",
                    title       |-> "A",
                    status      |-> "queued",
                    createdAt   |-> now,
                    updatedAt   |-> now]
       IN  UiCompletes(SaveTaskSt(Store, task),
                       [op |-> "handleSummarizeAction", task |-> task], Null, ui)

\* refreshTasks of the hook, for the workspace the popup shows
RefreshTasks(workspaceId) ==
    LET handled == HandleMessage(Store, "getTasks",
                                 [workspaceId |-> workspaceId], now)
    IN  UiCompletes(handled.st, [op |-> "refreshTasks"], Null,
                    [ui EXCEPT !.tasks = handled.response.tasks])

\* the tasks of the hook's state with one of them changed
MapTask(tasks, taskId, updates) ==
    [i \in 1..Len(tasks) |->
        IF tasks[i].id = taskId THEN Spread(tasks[i], updates) ELSE tasks[i]]

\* processTask up to its first await: the panel offers it for a task it
\* shows as queued; the status is set to processing in React state only
ProcessTask_start(taskId) ==
    /\ \E i \in 1..Len(ui.tasks) :
            ui.tasks[i].id = taskId /\ ui.tasks[i].status = "queued"
    /\ ui.processing[taskId] < MaxProcessing
    /\ UiCompletes(Store, [op |-> "processTask.start", taskId |-> taskId], Null,
                   [tasks      |-> MapTask(ui.tasks, taskId,
                                           [status |-> "processing"]),
                    processing |-> [ui.processing EXCEPT ![taskId] = @ + 1]])

\* the updates processTask sends when its work resolved (aiOk) or threw
ProcessTaskUpdates(workspace, aiOk) ==
    IF workspace = NullRecord
    THEN [status |-> "failed", error |-> "Workspace not found", updatedAt |-> now]
    ELSE IF aiOk
    THEN [status |-> "completed", result |-> Summary, updatedAt |-> now]
    ELSE [status |-> "failed", error |-> "Processing failed", updatedAt |-> now]

\* processTask from the answer of the AI call on: updateTask is sent and
\* React state follows
ProcessTask_finish(taskId, workspaceId, aiOk) ==
    /\ ui.processing[taskId] > 0
    /\ LET updates == ProcessTaskUpdates(GetWorkspace(local, workspaceId, TRUE),
                                         aiOk)
           handled == HandleMessage(Store, "updateTask",
                                    [taskId |-> taskId, updates |-> updates], now)
       IN  UiCompletes(handled.st,
                       [op |-> "processTask", taskId |-> taskId,
                        updates |-> updates], Null,
                       [tasks      |-> MapTask(ui.tasks, taskId, updates),
                        processing |-> [ui.processing EXCEPT ![taskId] = @ - 1]])

\* deleteTask of the hook: the task leaves React state, the message is
\* sent, and on success = false the list is fetched again
DeleteTask(taskId, workspaceId) ==
    /\ \E i \in 1..Len(ui.tasks) : ui.tasks[i].id = taskId
    /\ LET handled   == HandleMessage(Store, "deleteTask", [taskId |-> taskId], now)
           refreshed == HandleMessage(handled.st, "getTasks",
                                      [workspaceId |-> workspaceId], now)
       IN  UiCompletes(handled.st,
                       [op |-> "deleteTask", taskId |-> taskId,
                        workspaceId |-> workspaceId,
                        response |-> handled.response], Null,
                       [ui EXCEPT !.tasks =
                            IF handled.response.success
                            THEN SelectSeq(ui.tasks, LAMBDA task : task.id # taskId)
                            ELSE refreshed.response.tasks])

(***************************************************************************)
(* SpecTasks: one workspace, active; tasks are queued from the context     *)
(* menu, and listed, processed and deleted from the popup.                 *)
(***************************************************************************)
InitTasks ==
    /\ sync   = [mv_active_workspace |-> "w1"]
    /\ local  = [mv_workspaces |-> <<[id |-> "w1", name |-> "Research",
                                      createdAt |-> 0, updatedAt |-> 0,
                                      isActive |-> TRUE]>>]
    /\ now    = 0
    /\ nextHl = 1
    /\ lastOp = [op |-> "init"]
    /\ pre    = [sync |-> sync, local |-> local, now |-> 0]
    /\ ret    = Null
    /\ hlRun  = [w \in WorkspaceIds |-> NoHlRun]
    /\ settingsRun = NoSettingsRun
    /\ ctx    = [c \in Contexts |-> Idle]
    /\ writes = <<>>
    /\ ui     = [tasks |-> <<>>, processing |-> [t \in TaskIds |-> 0]]

NextTasks ==
    \/ \E taskId \in TaskIds,
          taskType \in {"summarize_selection", "summarize_page"} :
            HandleSummarizeAction(taskId, taskType)
    \/ RefreshTasks("w1")
    \/ \E taskId \in TaskIds : ProcessTask_start(taskId)
    \/ \E taskId \in TaskIds, aiOk \in BOOLEAN :
            ProcessTask_finish(taskId, "w1", aiOk)
    \/ \E taskId \in TaskIds : DeleteTask(taskId, "w1")

SpecTasks == InitTasks /\ [][NextTasks]_vars

(***************************************************************************)
(* Saving a highlight from a page: the content script sends SAVE_HIGHLIGHT *)
(* and the background worker answers.  readOk = FALSE is a rejected get of *)
(* the pointer (getActiveWorkspace answers null), appendOk = FALSE an      *)
(* appendHighlight that throws, sendOk = FALSE a sendMessage that rejects. *)
(***************************************************************************)
\* handleSaveHighlight: every path ends inside its own try/catch, so it
\* returns normally (threw = FALSE) with a notification
HandleSaveHighlight(st, highlight, readOk, appendOk) ==
    LET activeWorkspaceId == GetActiveWorkspace(st.sync, readOk)
    IN  IF activeWorkspaceId = Null
        THEN [st |-> st, threw |-> FALSE,
              notification |-> "Please select a workspace first"]
        ELSE IF appendOk
        THEN [st |-> AppendHighlightSt(st, activeWorkspaceId, highlight, TRUE),
              threw |-> FALSE,
              notification |-> "Highlight saved to workspace"]
        ELSE [st |-> st, threw |-> FALSE,
              notification |-> "Failed to save highlight"]

\* the SAVE_HIGHLIGHT case of handleMessage: success unless the handler threw
HandleMessageSaveHighlight(st, highlight, readOk, appendOk) ==
    LET handled == HandleSaveHighlight(st, highlight, readOk, appendOk)
    IN  [st |-> handled.st,
         notification |-> handled.notification,
         response |-> IF handled.threw
                      THEN [success |-> FALSE] ELSE [success |-> TRUE]]

\* handleSaveClick of the content script: the response is awaited and not
\* read; the confirmation is shown unless sendMessage rejected
HandleSaveClick(readOk, appendOk, sendOk) ==
    /\ nextHl <= MaxAppends
    /\ LET highlight == [id |-> nextHl, createdAt |-> now]
           handled   == HandleMessageSaveHighlight(Store, highlight, readOk,
                                                   appendOk)
       IN  IF sendOk
           THEN Completes(handled.st,
                          [op |-> "handleSaveClick", highlight |-> highlight,
                           sent |-> TRUE, appendOk |-> appendOk,
                           response |-> handled.response,
                           notification |-> handled.notification,
                           confirmation |-> TRUE], Null)
           ELSE Completes(Store,
                          [op |-> "handleSaveClick", highlight |-> highlight,
                           sent |-> FALSE, appendOk |-> appendOk,
                           response |-> [success |-> FALSE],
                           notification |-> "",
                           confirmation |-> FALSE], Null)
    /\ nextHl' = nextHl + 1
    /\ UNCHANGED <<now, hlRun, settingsRun>>

NextCapture ==
    \/ \E workspace \in FailWorkspaces : SaveWorkspace(workspace, now)
    \/ \E id \in WorkspaceIds \cup {Null} : SetActiveWorkspace(id)
    \/ \E readOk \in BOOLEAN, appendOk \in BOOLEAN, sendOk \in BOOLEAN :
            HandleSaveClick(readOk, appendOk, sendOk)

SpecCapture == Init /\ [][NextCapture]_vars

(***************************************************************************)
(* Capturing the tabs of the current window.  A URL is the sequence of its *)
(* parts, the scheme first, so that startsWith compares leading parts; the *)
(* empty sequence is a tab without a URL.                                  *)
(***************************************************************************)
Urls ==
    {<<>>,
     <<"https", "://", "a.example">>,
     <<"chrome", "://", "settings">>,
     <<"chrome-extension", "://", "id/popup.html">>,
     <<"about", ":", "blank">>}

\* String.prototype.startsWith
StartsWith(url, prefix) ==
    Len(url) >= Len(prefix) /\ SubSeq(url, 1, Len(prefix)) = prefix

\* the tabs chrome.tabs.query({currentWindow: true}) answers, in window order
Windows ==
    UNION {[1..n -> Urls] : n \in 0..MaxTabs}

TabsOf(window) ==
    [i \in 1..Len(window) |-> [id |-> i, url |-> window[i], index |-> i - 1]]

\* the filter both capture paths apply: tab.url && !tab.url.startsWith('chrome://')
Captured(tab) == tab.url # <<>> /\ ~StartsWith(tab.url, <<"chrome", "://">>)

\* the TabRefs of saveCurrentTabSet: the filtered tabs with their window index
TabRefs(tabs) ==
    LET kept == SelectSeq(tabs, Captured)
    IN  [i \in 1..Len(kept) |->
            [id |-> kept[i].id, url |-> kept[i].url, title |-> "Untitled",
             pinned |-> FALSE, index |-> kept[i].index]]

\* the SavedTabs of createTabSet: the filtered tabs with their place among
\* the kept ones as index
SavedTabs(tabs) ==
    LET kept == SelectSeq(tabs, Captured)
    IN  [i \in 1..Len(kept) |->
            [id |-> kept[i].id, url |-> kept[i].url, title |-> "Untitled",
             pinned |-> FALSE, index |-> i - 1]]

\* createTabSet(workspaceId, name, tabs)
CreateTabSet(tabSetId, workspaceId, name, tabs, t) ==
    [id |-> tabSetId, workspaceId |-> workspaceId, name |-> name,
     tabs |-> SavedTabs(tabs), createdAt |-> t, updatedAt |-> t]

\* a caller builds a tab set with createTabSet; nothing is stored
CreateTabSetCall(tabSetId, workspaceId, window) ==
    /\ Completes(Store,
                 [op |-> "createTabSet", window |-> TabsOf(window),
                  tabs |-> CreateTabSet(tabSetId, workspaceId, "Reading",
                                        TabsOf(window), now).tabs],
                 tabSetId)
    /\ UNCHANGED <<now, nextHl, hlRun, settingsRun>>

\* saveCurrentTabSet of the background worker
SaveCurrentTabSet(tabSetId, workspaceId, window) ==
    /\ \A i \in 1..Len(GetAllTabSets(local)) :
            GetAllTabSets(local)[i].id # tabSetId
    /\ Completes(SaveTabSetSt(Store, tabSetId, workspaceId,
                              TabRefs(TabsOf(window)), "Reading", now),
                 [op |-> "saveCurrentTabSet", window |-> TabsOf(window),
                  tabs |-> TabRefs(TabsOf(window))],
                 tabSetId)
    /\ UNCHANGED <<now, nextHl, hlRun, settingsRun>>

NextTabs ==
    \/ \E workspaceId \in WorkspaceIds, window \in Windows :
            SaveCurrentTabSet("ts1", workspaceId, window)
    \/ \E window \in Windows : CreateTabSetCall("ts2", "w1", window)

SpecTabs == Init /\ [][NextTabs]_vars

(***************************************************************************)
(* clearAllData, and SpecStore: every mutating method of the               *)
(* StorageManager, called one after another.                               *)
(***************************************************************************)
\* variant: the sync partition is left as it is
ClearAllDataLocalOnly(st) == [sync |-> st.sync, local |-> EmptyObj]

\* clearAllData: clear() of both partitions
ClearAllDataSt(st) == [sync |-> EmptyObj, local |-> EmptyObj]

ClearAllData ==
    /\ Completes(ClearAllDataSt(Store), [op |-> "clearAllData"], Null)
    /\ hlRun' = [w \in WorkspaceIds |-> NoHlRun]
    /\ settingsRun' = NoSettingsRun
    /\ UNCHANGED <<now, nextHl>>

NextStore ==
    \/ \E workspace \in FailWorkspaces : SaveWorkspace(workspace, now)
    \/ \E id \in WorkspaceIds : DeleteWorkspace(id)
    \/ \E id \in WorkspaceIds \cup {Null} : SetActiveWorkspace(id)
    \/ \E tabs \in TabLists : SaveTabSet("ts1", "w1", tabs, "")
    \/ AppendHighlight("w1", MaxAppends)
    \/ SaveSettings([theme |-> "dark"])
    \/ \E data \in Snapshots : ImportData(data)
    \/ ClearAllData

SpecStore == Init /\ [][NextStore]_vars

(***************************************************************************)
(* SpecFrame: workspaces saved, activated and deleted, each call running   *)
(* alone over a working backend, while the clock runs.  The store the run  *)
(* begins with holds two workspaces, the first one active, three tab sets  *)
(* and a highlight group for each, and a settings record.                  *)
(***************************************************************************)
FrameLocal ==
    [RecoverLocal EXCEPT
        !.mv_tab_sets = Append(@, [id |-> "ts3", workspaceId |-> "w1",
                                   name |-> DefaultTabSetName, tabs |-> <<>>,
                                   createdAt |-> 0, updatedAt |-> 0])]

InitFrame ==
    /\ sync   = [mv_active_workspace |-> "w1", mv_settings |-> [theme |-> "dark"]]
    /\ local  = FrameLocal
    /\ now    = 0
    /\ nextHl = 3
    /\ lastOp = [op |-> "init"]
    /\ pre    = [sync |-> sync, local |-> local, now |-> 0]
    /\ ret    = Null
    /\ hlRun  = [w \in WorkspaceIds |-> NoHlRun]
    /\ settingsRun = NoSettingsRun
    /\ ctx    = [c \in Contexts |-> Idle]
    /\ writes = <<>>
    /\ ui     = NotLoaded

NextFrame ==
    \/ Tick
    \/ \E workspace \in FailWorkspaces : SaveWorkspace(workspace, now)
    \/ \E id \in WorkspaceIds \cup {Null} : SetActiveWorkspace(id)
    \/ \E id \in WorkspaceIds : DeleteWorkspace(id)

SpecFrame == InitFrame /\ [][NextFrame]_vars

(***************************************************************************)
(* SpecClear: one workspace with its tab set, highlights, quick note and   *)
(* task, the pointer and the settings, and clearAllData.                   *)
(***************************************************************************)
NextClear ==
    \/ \E workspace \in {w \in FailWorkspaces : w.id = "w1"} :
            SaveWorkspace(workspace, now)
    \/ SetActiveWorkspace("w1")
    \/ \E tabs \in TabLists : SaveTabSet("ts1", "w1", tabs, "")
    \/ AppendHighlight("w1", MaxAppends)
    \/ SaveSettings([theme |-> "dark"])
    \/ \E note \in Notes : LegacySet(QuickNoteKey("w1"), note)
    \/ HandleSummarizeAction("t1", "summarize_page")
    \/ ClearAllData

SpecClear == Init /\ [][NextClear]_vars

(***************************************************************************)
(* Claims about the workspace collection and its dependents (Spec).        *)
(***************************************************************************)
ActiveIndexes(l) ==
    {i \in 1..Len(ListWorkspaces(l, TRUE)) : ListWorkspaces(l, TRUE)[i].isActive}

StoredIds(l) ==
    {ListWorkspaces(l, TRUE)[i].id : i \in 1..Len(ListWorkspaces(l, TRUE))}

\* C1: after every completed setActiveWorkspace(id), at most one listed
\* workspace has isActive = true and it is the one whose id was passed; none
\* is active when null was passed or the named workspace is not stored.
C1_SingleActiveAfterSetActive ==
    lastOp.op = "setActiveWorkspace" =>
        LET workspaces == ListWorkspaces(local, TRUE)
        IN  /\ Cardinality(ActiveIndexes(local)) <= 1
            /\ \A i \in 1..Len(workspaces) :
                    workspaces[i].isActive <=> workspaces[i].id = lastOp.id
            /\ (lastOp.id = Null \/ lastOp.id \notin StoredIds(local))
                    => ActiveIndexes(local) = {}

\* setActiveWorkspace switched from one stored workspace to another
C1_Witness ==
    /\ lastOp.op = "setActiveWorkspace"
    /\ lastOp.id # Null
    /\ Cardinality(ActiveIndexes(pre.local)) >= 1
    /\ \E i \in ActiveIndexes(pre.local) :
            ListWorkspaces(pre.local, TRUE)[i].id # lastOp.id
    /\ Cardinality(ActiveIndexes(local)) = 1

\* C2: after deleteWorkspace(id) the workspace, its tab sets and its
\* highlights are gone, and the pointer is cleared if it named id.
C2_CascadingDelete ==
    lastOp.op = "deleteWorkspace" =>
        /\ GetWorkspace(local, lastOp.id, TRUE) = NullRecord
        /\ GetWorkspaceTabSets(local, lastOp.id) = <<>>
        /\ GetHighlights(local, lastOp.id, DefaultMaxHighlights) = <<>>
        /\ GetActiveWorkspace(pre.sync, TRUE) = lastOp.id
                => GetActiveWorkspace(sync, TRUE) = Null

\* the deleted workspace was stored, active, and had tab sets and highlights
C2_Witness ==
    /\ lastOp.op = "deleteWorkspace"
    /\ lastOp.id \in StoredIds(pre.local)
    /\ GetActiveWorkspace(pre.sync, TRUE) = lastOp.id
    /\ GetWorkspaceTabSets(pre.local, lastOp.id) # <<>>
    /\ GetHighlights(pre.local, lastOp.id, DefaultMaxHighlights) # <<>>
    /\ GetActiveWorkspace(sync, TRUE) = Null

\* C3: every stored tab set's workspaceId and every key of the highlight map
\* is the id of a stored workspace.
C3_ReferentialIntegrity ==
    /\ \A i \in 1..Len(GetAllTabSets(local)) :
            GetAllTabSets(local)[i].workspaceId \in StoredIds(local)
    /\ DOMAIN GetAllHighlights(local) \subseteq StoredIds(local)

\* C4: at most one stored workspace has isActive = true.
C4_AtMostOneActive == Cardinality(ActiveIndexes(local)) <= 1

(***************************************************************************)
(* Claims about the highlight cap (SpecHl).                                *)
(***************************************************************************)
HighlightsOf(l, workspaceId) == Get(GetAllHighlights(l), workspaceId, <<>>)

\* the n newest of a run of appended highlights, newest first
NewestFirst(hs, n) == [i \in 1..n |-> hs[Len(hs) - i + 1]]

\* C5: with maxHighlights = K >= 1, after h1..h(K+M) were appended in that
\* order to an empty group, getHighlights(id, K+M) is [h(K+M), ..., h(M+1)].
C5_CapKeepsNewestK ==
    \A w \in WorkspaceIds :
        LET K == hlRun[w].cap
            n == Len(hlRun[w].hs)
        IN  (K >= 1 /\ n >= K) =>
                GetHighlights(local, w, n) = NewestFirst(hlRun[w].hs, K)

\* four highlights were appended to one group under the cap 2
C5_Witness ==
    \E w \in WorkspaceIds :
        /\ hlRun[w].cap = 2
        /\ Len(hlRun[w].hs) = 4
        /\ lastOp.op = "appendHighlight"
        /\ lastOp.workspaceId = w
        /\ Len(GetHighlights(local, w, 4)) = 2

\* a sequence of highlights whose ordinals strictly decrease
IsNewestFirst(hs) ==
    \A i \in 1..Len(hs), j \in 1..Len(hs) : i < j => hs[i].id > hs[j].id

C7_Original ==
    (lastOp.op = "appendHighlight" /\ SETTINGS \in DOMAIN pre.sync) =>
        LET K == pre.sync[SETTINGS].maxHighlights
        IN  HighlightsOf(local, lastOp.workspaceId) =
                Slice(<<lastOp.highlight>> \o
                        HighlightsOf(pre.local, lastOp.workspaceId), K)

\* C7 amended: the same for every stored cap K >= 1.
C7_PositiveCapTrims ==
    (lastOp.op = "appendHighlight" /\ SETTINGS \in DOMAIN pre.sync) =>
        LET K == pre.sync[SETTINGS].maxHighlights
        IN  K >= 1 =>
                /\ Len(HighlightsOf(local, lastOp.workspaceId)) <= K
                /\ HighlightsOf(local, lastOp.workspaceId) =
                        Slice(<<lastOp.highlight>> \o
                                HighlightsOf(pre.local, lastOp.workspaceId), K)

\* the cap was lowered to 1 under a group of two, and the next append
\* dropped both old entries
C7_Witness ==
    /\ lastOp.op = "appendHighlight"
    /\ SETTINGS \in DOMAIN pre.sync
    /\ pre.sync[SETTINGS].maxHighlights = 1
    /\ Len(HighlightsOf(pre.local, lastOp.workspaceId)) = 2
    /\ HighlightsOf(local, lastOp.workspaceId) = <<lastOp.highlight>>

(***************************************************************************)
(* Claims about the settings record (SpecSettings).                        *)
(***************************************************************************)
\* C8: saveSettings(A); saveSettings(B) leaves getSettings() as one
\* saveSettings({...A, ...B}) would: B's value for a key B names, else A's
\* for a key A names, else the value from before the two calls.
C8_SaveSettingsMerges ==
    settingsRun.n = 2 =>
        LET A      == settingsRun.first
            B      == settingsRun.second
            before == [sync |-> settingsRun.base, local |-> EmptyObj]
            single == SaveSettingsSt(before, Spread(A, B), TRUE)
            got    == GetSettings(sync, TRUE)
            was    == GetSettings(settingsRun.base, TRUE)
        IN  /\ got = GetSettings(single.sync, TRUE)
            /\ DOMAIN got = DOMAIN was \cup DOMAIN A \cup DOMAIN B
            /\ \A k \in DOMAIN got :
                    got[k] = IF k \in DOMAIN B THEN B[k]
                             ELSE IF k \in DOMAIN A THEN A[k]
                             ELSE was[k]

\* two saves that share a key and each name one the other does not, over a
\* stored record that holds a field neither names
C8_Witness ==
    /\ settingsRun.n = 2
    /\ "theme" \in DOMAIN settingsRun.first
    /\ "theme" \in DOMAIN settingsRun.second
    /\ settingsRun.first.theme # settingsRun.second.theme
    /\ "focusModeEnabled" \in DOMAIN settingsRun.first
    /\ "focusModeEnabled" \notin DOMAIN settingsRun.second
    /\ "openaiApiKey" \notin DOMAIN settingsRun.first
    /\ "openaiApiKey" \in DOMAIN GetSettings(settingsRun.base, TRUE)
    /\ GetSettings(sync, TRUE).theme = settingsRun.second.theme

RecognizedDefaults ==
    {"notionIntegrationEnabled", "focusModeEnabled", "autoSaveTabSets",
     "theme", "maxHighlights"}

\* C9 as stated: getSettings() returns all five defaulted fields, each with
\* its stored value if one is stored and the default otherwise, also when
\* the backend read fails.
C9_Original ==
    lastOp.op = "getSettings" =>
        LET stored == Get(sync, SETTINGS, EmptyObj)
        IN  \A k \in RecognizedDefaults :
                /\ k \in DOMAIN ret
                /\ ret[k] = IF k \in DOMAIN stored THEN stored[k]
                            ELSE defaultSettings[k]

\* C9 amended: all five fields are always defined; when the read succeeds
\* each has its stored value if one is stored and the default otherwise;
\* when the read fails the result is the defaults, whatever is stored.
C9_FullyPopulated ==
    lastOp.op = "getSettings" =>
        LET stored == Get(sync, SETTINGS, EmptyObj)
        IN  /\ RecognizedDefaults \subseteq DOMAIN ret
            /\ lastOp.readOk =>
                    \A k \in RecognizedDefaults :
                        ret[k] = IF k \in DOMAIN stored THEN stored[k]
                                 ELSE defaultSettings[k]
            /\ ~lastOp.readOk => ret = defaultSettings

\* a read of a partial stored record (imported with the theme alone)
C9_Witness ==
    /\ lastOp.op = "getSettings"
    /\ lastOp.readOk
    /\ SETTINGS \in DOMAIN sync
    /\ DOMAIN sync[SETTINGS] = {"theme"}
    /\ ret.theme = "dark"
    /\ ret.maxHighlights = DefaultMaxHighlights

(***************************************************************************)
(* Claims about saved workspace records and the clock (SpecTime).          *)
(***************************************************************************)
\* W and r agree on every field but updatedAt
SameButUpdatedAt(W, r) ==
    /\ DOMAIN r = DOMAIN W
    /\ \A f \in DOMAIN W \ {"updatedAt"} : r[f] = W[f]

\* C10 as stated: after saveWorkspace(W), getWorkspace(W.id) equals W but for
\* updatedAt, which is at least the time saveWorkspace was called.
C10_Original ==
    lastOp.op = "saveWorkspace" =>
        LET W == lastOp.workspace
            r == GetWorkspace(local, W.id, TRUE)
        IN  /\ r # NullRecord
            /\ SameButUpdatedAt(W, r)
            /\ r.updatedAt >= pre.now

\* C10 amended: the record equals W but for updatedAt; when W.id was stored
\* before the call updatedAt is at least the time of the call, and when W.id
\* is new updatedAt is W.updatedAt as the caller gave it.
C10_RoundTrip ==
    lastOp.op = "saveWorkspace" =>
        LET W == lastOp.workspace
            r == GetWorkspace(local, W.id, TRUE)
        IN  /\ r # NullRecord
            /\ SameButUpdatedAt(W, r)
            /\ IF W.id \in StoredIds(pre.local)
               THEN r.updatedAt >= pre.now
               ELSE r.updatedAt = W.updatedAt

\* a stored workspace saved again, renamed, with a stale updatedAt
C10_Witness ==
    /\ lastOp.op = "saveWorkspace"
    /\ lastOp.workspace.id \in StoredIds(pre.local)
    /\ GetWorkspace(pre.local, lastOp.workspace.id, TRUE).name # lastOp.workspace.name
    /\ lastOp.workspace.updatedAt < pre.now
    /\ GetWorkspace(local, lastOp.workspace.id, TRUE).updatedAt > pre.now

\* no two records of a workspace collection share an id
DistinctIds(ws) ==
    \A i \in 1..Len(ws), j \in 1..Len(ws) : ws[i].id = ws[j].id => i = j

\* C11: saveWorkspace(W) replaces a stored record with W.id in place (same
\* length, every other record where it was) with updatedAt = the time the
\* call read, whatever W.updatedAt is, and otherwise appends W at the end; after
\* any sequence of such calls no two stored workspaces share an id.
C11_UpsertById ==
    /\ DistinctIds(ListWorkspaces(local, TRUE))
    /\ lastOp.op = "saveWorkspace" =>
            LET W   == lastOp.workspace
                old == ListWorkspaces(pre.local, TRUE)
                new == ListWorkspaces(local, TRUE)
                i   == FindIndex(old, W.id)
            IN  IF i > 0
                THEN /\ Len(new) = Len(old)
                     /\ \A j \in 1..Len(old) : j # i => new[j] = old[j]
                     /\ new[i] = [W EXCEPT !.updatedAt = lastOp.at]
                ELSE new = Append(old, W)

\* the first of two stored workspaces saved again with a stale updatedAt
C11_Witness ==
    /\ lastOp.op = "saveWorkspace"
    /\ Len(ListWorkspaces(pre.local, TRUE)) = 2
    /\ FindIndex(ListWorkspaces(pre.local, TRUE), lastOp.workspace.id) = 1
    /\ lastOp.workspace.updatedAt < lastOp.at
    /\ ListWorkspaces(local, TRUE)[1].id = lastOp.workspace.id
    /\ ListWorkspaces(local, TRUE)[1].updatedAt = lastOp.at
    /\ ListWorkspaces(local, TRUE)[2] = ListWorkspaces(pre.local, TRUE)[2]

(***************************************************************************)
(* Claims about a backend that rejects (SpecFail).                         *)
(***************************************************************************)
\* C12: when the backend set of saveWorkspace, saveTabSet, appendHighlight or
\* saveSettings rejects, the call rejects with the error that names the
\* operation and both partitions hold exactly what they held at the call.
C12_FailedWriteChangesNothing ==
    \A c \in Contexts :
        (ctx[c].op = "done" /\ ctx[c].failed = "set") =>
            /\ ctx[c].call = "saveWorkspace"
                    => ctx[c].error = "Failed to save workspace"
            /\ ctx[c].call = "saveTabSet"
                    => ctx[c].error = "Failed to save tab set"
            /\ ctx[c].call = "appendHighlight"
                    => ctx[c].error = "Failed to append highlight"
            /\ ctx[c].call = "saveSettings"
                    => ctx[c].error = "Failed to save settings"
            /\ Store = ctx[c].start

\* an appendHighlight to a group that held a highlight, whose set rejected
C12_Witness ==
    /\ ctx["popup"].op = "done"
    /\ ctx["popup"].call = "appendHighlight"
    /\ ctx["popup"].failed = "set"
    /\ ctx["popup"].error # NoError
    /\ HighlightsOf(local, ctx["popup"].arg.workspaceId) # <<>>
    /\ WORKSPACES \in DOMAIN local

\* the value a read returns when there is nothing to return
EmptyValue(op) ==
    CASE op \in {"listWorkspaces", "getWorkspaceTabSets", "getHighlights"} -> <<>>
      [] op \in {"getWorkspace", "getTabSet"} -> NullRecord
      [] op = "getActiveWorkspace" -> Null
      [] op = "getSettings" -> defaultSettings

\* C13: a read (listWorkspaces, getWorkspace, getActiveWorkspace, getTabSet,
\* getWorkspaceTabSets, getHighlights, getSettings) whose backend get rejects
\* returns its empty value ([] / null / the default settings) and leaves
\* both partitions as they were.
C13_FailedReadReturnsEmpty ==
    (lastOp.op \in ReadOps /\ ~lastOp.readOk) =>
        /\ ret = EmptyValue(lastOp.op)
        /\ Store = [sync |-> pre.sync, local |-> pre.local]

\* getTabSet of a stored tab set over a backend whose get rejected
C13_Witness ==
    /\ lastOp.op = "getTabSet"
    /\ ~lastOp.readOk
    /\ GetTabSet(local, lastOp.id, TRUE) # NullRecord
    /\ ret = NullRecord
    /\ GetActiveWorkspace(sync, TRUE) # Null
    /\ SETTINGS \in DOMAIN sync

(***************************************************************************)
(* Claims about calls interleaved at their awaits.                         *)
(***************************************************************************)
Resolved(c, op) ==
    /\ ctx[c].op = "done"
    /\ ctx[c].call = op
    /\ ctx[c].error = NoError

\* the record the resolved saveWorkspace of c handed to the backend
Written(c) ==
    GetWorkspace(SaveWorkspaceSt(ctx[c].view, ctx[c].arg.workspace, now,
                                 TRUE).local,
                 ctx[c].arg.workspace.id, TRUE)

\* C14: when saveWorkspace(A) and saveWorkspace(B), A.id # B.id, have both
\* resolved, B's set landed last and B had listed the collection before A's
\* set landed, the stored collection is what B listed with B upserted: B's
\* record is there and A's record is not.  (The witness shows such an
\* interleaving is reached.)
C14_LostUpdate ==
    \A a \in Racers, b \in Racers :
        ( /\ a # b
          /\ Resolved(a, "saveWorkspace")
          /\ Resolved(b, "saveWorkspace")
          /\ writes = <<a, b>>
          /\ GetWorkspace(ctx[b].view.local, ctx[a].arg.workspace.id, TRUE)
                # Written(a) )
        => /\ GetWorkspace(local, ctx[b].arg.workspace.id, TRUE) = Written(b)
           /\ GetWorkspace(local, ctx[a].arg.workspace.id, TRUE) # Written(a)
           /\ ListWorkspaces(local, TRUE) =
                SaveWorkspaceSt(ctx[b].view, ctx[b].arg.workspace, now,
                                TRUE).local[WORKSPACES]

\* both calls resolved over an empty collection and only the background's
\* record is stored
C14_Witness ==
    /\ Resolved("popup", "saveWorkspace")
    /\ Resolved("background", "saveWorkspace")
    /\ ctx["popup"].start.local = EmptyObj
    /\ ctx["background"].start.local = EmptyObj
    /\ writes = <<"popup", "background">>
    /\ ListWorkspaces(local, TRUE) = <<ctx["background"].arg.workspace>>
    /\ ctx["popup"].arg.workspace.id \notin StoredIds(local)

\* the whole method of a settled call, applied to a store
ApplyCall(st, r) ==
    CASE r.call = "saveWorkspace" ->
            SaveWorkspaceSt(st, r.arg.workspace, now, TRUE)
      [] r.call = "saveTabSet" ->
            SaveTabSetSt(st, r.arg.tabSetId, r.arg.workspaceId, r.arg.tabs,
                         r.arg.name, now)
      [] r.call = "appendHighlight" ->
            AppendHighlightSt(st, r.arg.workspaceId, r.arg.highlight, TRUE)
      [] r.call = "saveSettings" ->
            SaveSettingsSt(st, r.arg.settings, TRUE)

\* the orders in which the four contexts can take turns
Orders ==
    {o \in [1..4 -> Contexts] : \A i \in 1..4, j \in 1..4 : o[i] = o[j] => i = j}

\* the store after the four calls ran one after another in the order o
OneAfterAnother(st, o) ==
    ApplyCall(ApplyCall(ApplyCall(ApplyCall(st, ctx[o[1]]), ctx[o[2]]),
                        ctx[o[3]]), ctx[o[4]])

\* C15: when one saveWorkspace, one saveTabSet, one appendHighlight and one
\* saveSettings, interleaved at their awaits in four contexts, have all
\* resolved, the store is the one some one-after-another order of the four
\* leaves, and it holds all four updates.
C15_DifferentTypesDoNotInterfere ==
    (\A c \in Contexts : ctx[c].op = "done" /\ ctx[c].error = NoError) =>
        /\ \E o \in Orders :
                Store = OneAfterAnother([sync |-> pre.sync, local |-> pre.local], o)
        /\ LET W == ctx["popup"].arg.workspace
           IN  /\ GetWorkspace(local, W.id, TRUE) # NullRecord
               /\ GetWorkspace(local, W.id, TRUE).name = W.name
        /\ GetTabSet(local, ctx["background"].arg.tabSetId, TRUE) # NullRecord
        /\ HighlightsOf(local, "w1") # <<>>
        /\ HighlightsOf(local, "w1")[1] = ctx["content"].arg.highlight
        /\ \A k \in DOMAIN ctx["options"].arg.settings :
                GetSettings(sync, TRUE)[k] = ctx["options"].arg.settings[k]

\* all four resolved, every read having come before every write; the
\* highlight was appended under the cap the options page replaced meanwhile
C15_Witness ==
    /\ \A c \in Contexts : ctx[c].op = "done" /\ ctx[c].error = NoError
    /\ ~ctx["popup"].alone
    /\ ctx["content"].view.sync = pre.sync
    /\ ctx["options"].arg.settings = [maxHighlights |-> 1]
    /\ writes[1] = "options"
    /\ writes[4] = "content"
    /\ Len(HighlightsOf(local, "w1")) = 3
    /\ GetSettings(sync, TRUE).maxHighlights = 1

\* the call of c resolved and no other context has taken a step since the
\* call began
RanAlone(c, op) == Resolved(c, op) /\ ctx[c].alone

\* C16: whatever state earlier setActiveWorkspace and deleteWorkspace calls
\* left (failed between their writes, or interleaved with each other), a
\* setActiveWorkspace(x) that then runs alone and resolves leaves the
\* pointer equal to x and isActive(w) true exactly for w.id = x, and a
\* deleteWorkspace(id) that runs alone and resolves leaves no workspace, no
\* tab set and no highlight group for id.
C16_RecoveryByReExecution ==
    \A c \in Contexts :
        /\ RanAlone(c, "setActiveWorkspace") =>
                LET x          == ctx[c].arg.id
                    workspaces == ListWorkspaces(local, TRUE)
                IN  /\ GetActiveWorkspace(sync, TRUE) = x
                    /\ \A i \in 1..Len(workspaces) :
                            workspaces[i].isActive <=> workspaces[i].id = x
        /\ RanAlone(c, "deleteWorkspace") =>
                LET id == ctx[c].arg.id
                IN  /\ GetWorkspace(local, id, TRUE) = NullRecord
                    /\ GetWorkspaceTabSets(local, id) = <<>>
                    /\ id \notin DOMAIN GetAllHighlights(local)

\* the store from which a call began: the pointer names a workspace that is
\* not flagged, or a flagged workspace is not the one the pointer names
Torn(st) ==
    LET workspaces == ListWorkspaces(st.local, TRUE)
    IN  \E i \in 1..Len(workspaces) :
            workspaces[i].isActive
                # (workspaces[i].id = GetActiveWorkspace(st.sync, TRUE))

\* the popup's setActiveWorkspace ran alone from a torn store that still
\* held both workspaces, left by a call of the background that rejected,
\* and repaired it
C16_Witness ==
    /\ RanAlone("popup", "setActiveWorkspace")
    /\ Torn(ctx["popup"].start)
    /\ Len(ListWorkspaces(ctx["popup"].start.local, TRUE)) = 2
    /\ ctx["popup"].arg.id \in StoredIds(local)
    /\ ~Torn(Store)
    /\ ctx["background"].op = "done"
    /\ ctx["background"].error # NoError

(***************************************************************************)
(* Claims about export and import (SpecBackup).                            *)
(***************************************************************************)
\* C17: importData(exportData()), nothing in between, leaves every key and
\* value of both partitions, and so listWorkspaces(), getSettings(), all tab
\* sets and all highlights, as they were immediately before the export.
C17_ExportImportRoundTrip ==
    (lastOp.op = "importData" /\ "exported" \in DOMAIN lastOp) =>
        /\ DOMAIN sync = DOMAIN pre.sync
        /\ DOMAIN local = DOMAIN pre.local
        /\ sync = pre.sync
        /\ local = pre.local
        /\ ListWorkspaces(local, TRUE) = ListWorkspaces(pre.local, TRUE)
        /\ GetSettings(sync, TRUE) = GetSettings(pre.sync, TRUE)
        /\ GetAllTabSets(local) = GetAllTabSets(pre.local)
        /\ GetAllHighlights(local) = GetAllHighlights(pre.local)

\* the export of a store with workspaces, a tab set, highlights, settings
\* and a pointer was imported back
C17_Witness ==
    /\ lastOp.op = "importData"
    /\ "exported" \in DOMAIN lastOp
    /\ ListWorkspaces(local, TRUE) # <<>>
    /\ GetAllTabSets(local) # <<>>
    /\ GetAllHighlights(local) # EmptyObj
    /\ SETTINGS \in DOMAIN sync
    /\ GetActiveWorkspace(sync, TRUE) # Null
    /\ lastOp.data.local = local

\* C18: after importData({sync, local}) each key of the snapshot maps holds
\* the snapshot's value and every other stored key keeps the value it had
\* before the import, in its partition.
C18_ImportIsAdditive ==
    lastOp.op = "importData" =>
        /\ DOMAIN sync = DOMAIN pre.sync \cup DOMAIN lastOp.data.sync
        /\ DOMAIN local = DOMAIN pre.local \cup DOMAIN lastOp.data.local
        /\ \A k \in DOMAIN lastOp.data.sync : sync[k] = lastOp.data.sync[k]
        /\ \A k \in DOMAIN lastOp.data.local : local[k] = lastOp.data.local[k]
        /\ \A k \in DOMAIN pre.sync \ DOMAIN lastOp.data.sync :
                sync[k] = pre.sync[k]
        /\ \A k \in DOMAIN pre.local \ DOMAIN lastOp.data.local :
                local[k] = pre.local[k]

\* a backup with a workspace collection alone imported over a store that
\* held another collection, a tab set and a pointer
C18_Witness ==
    /\ lastOp.op = "importData"
    /\ DOMAIN lastOp.data.local = {WORKSPACES}
    /\ lastOp.data.sync = EmptyObj
    /\ ListWorkspaces(pre.local, TRUE) # <<>>
    /\ ListWorkspaces(pre.local, TRUE) # ListWorkspaces(local, TRUE)
    /\ GetAllTabSets(local) # <<>>
    /\ GetAllTabSets(local) = GetAllTabSets(pre.local)
    /\ GetActiveWorkspace(sync, TRUE) # Null

(***************************************************************************)
(* Claims about the UI handlers and the legacy facade (SpecUi).            *)
(***************************************************************************)
\* C19: after the user deleted a workspace through useWorkspaces.deleteWorkspace
\* or WorkspaceManager.handleDeleteWorkspace, the store holds no tab set with
\* that workspaceId and no highlight group keyed by that id, and the
\* active-workspace pointer is not that id.
C19_UiDeleteCascades ==
    lastOp.op = "ui.deleteWorkspace" =>
        /\ GetWorkspaceTabSets(local, lastOp.id) = <<>>
        /\ lastOp.id \notin DOMAIN GetAllHighlights(local)
        /\ GetActiveWorkspace(sync, TRUE) # lastOp.id

\* the entries of a list
Entries(s) == {s[i] : i \in 1..Len(s)}

\* C20: after ExtensionStorage.set(k, v) for k among workspaces, tabSets,
\* savedTexts, activeWorkspaceId and config, ExtensionStorage.get(k)
\* reflects v: it is v for the pointer, holds every field of v for the
\* config, and holds every entry of v for the three lists.
C20_LegacySetThenGet ==
    lastOp.op = "ExtensionStorage.set" =>
        LET k   == lastOp.key
            v   == lastOp.value
            got == ExtensionStorageGet(Store, k)
        IN  CASE k = "activeWorkspaceId" -> got = v
              [] k = "config" ->
                    \A f \in DOMAIN v : f \in DOMAIN got /\ got[f] = v[f]
              [] OTHER -> Entries(v) \subseteq Entries(got)

\* what the facade's get answers when there is nothing to answer
LegacyEmpty(key) ==
    CASE key = "activeWorkspaceId" -> Null
      [] key = "config"            -> defaultSettings
      [] OTHER                     -> <<>>

\* C21: ExtensionStorage.get(k), k among workspaces, activeWorkspaceId,
\* config, tabSets and savedTexts, over a backend whose get rejects, does not
\* reject and resolves to the empty value of k ([] / null / the defaults).
C21_LegacyGetFailSoft ==
    ( /\ lastOp.op = "ExtensionStorage.get"
      /\ lastOp.key \in LegacyKeys
      /\ ~lastOp.readOk )
    => /\ ~lastOp.rejected
       /\ ret = LegacyEmpty(lastOp.key)

\* C22: deleteWorkspace(id) leaves every quickNotes_ key of the local
\* partition, quickNotes_<id> among them, with the value it had, so that
\* ExtensionStorage.get('quickNotes_<id>') answers the note as before; and
\* ExtensionStorage.set('quickNotes_<id>', note) stores the note whether or
\* not a workspace id is stored.
C22_QuickNoteOutlivesWorkspace ==
    /\ lastOp.op = "deleteWorkspace" =>
            /\ \A k \in QuickNoteKeys :
                    /\ k \in DOMAIN local <=> k \in DOMAIN pre.local
                    /\ k \in DOMAIN local => local[k] = pre.local[k]
            /\ ExtensionStorageGet(Store, QuickNoteKey(lastOp.id)) =
                    ExtensionStorageGet([sync |-> pre.sync, local |-> pre.local],
                                        QuickNoteKey(lastOp.id))
    /\ (lastOp.op = "ExtensionStorage.set" /\ lastOp.key \in QuickNoteKeys) =>
            /\ ExtensionStorageGet(Store, lastOp.key) = lastOp.value
            /\ StoredIds(local) = StoredIds(pre.local)
    /\ ( /\ lastOp.op = "ExtensionStorage.get"
         /\ lastOp.key \in QuickNoteKeys
         /\ lastOp.readOk )
       => ret = Get(local, lastOp.key, Undefined)

\* a stored workspace that had a quick note, a tab set and a highlight was
\* deleted and its note is still there, next to the note of the other
\* workspace id, which is not stored either
C22_Witness ==
    /\ lastOp.op = "deleteWorkspace"
    /\ lastOp.id \in StoredIds(pre.local)
    /\ GetWorkspaceTabSets(pre.local, lastOp.id) # <<>>
    /\ lastOp.id \in DOMAIN GetAllHighlights(pre.local)
    /\ StoredIds(local) = {}
    /\ GetAllTabSets(local) = <<>>
    /\ ExtensionStorageGet(Store, QuickNoteKey(lastOp.id)) = "draft"
    /\ \A k \in QuickNoteKeys : k \in DOMAIN local

(***************************************************************************)
(* Claims about tasks (SpecTasks).                                         *)
(***************************************************************************)
TaskStored(l, taskId) == FindIndex(GetAllTasks(l, TRUE), taskId) > 0

TaskOf(l, taskId) == GetAllTasks(l, TRUE)[FindIndex(GetAllTasks(l, TRUE), taskId)]

\* C23: after a deleteTask request for a stored task, whatever its status,
\* the worker has answered success = true and getTasks for the task's
\* workspace does not return it.
C23_DeleteTaskAnyStatus ==
    (lastOp.op = "deleteTask" /\ TaskStored(pre.local, lastOp.taskId)) =>
        /\ lastOp.response.success
        /\ \A i \in 1..Len(GetTasks(local, lastOp.workspaceId)) :
                GetTasks(local, lastOp.workspaceId)[i].id # lastOp.taskId

\* how far a status is along queued, processing, completed | failed
Rank(status) ==
    CASE status = "queued"     -> 0
      [] status = "processing" -> 1
      [] OTHER                 -> 2

\* C24: every stored task has one of the four statuses, a task is stored
\* as queued, a completed task carries a result and a failed one an error;
\* no step moves a stored status backwards, and none changes a status that
\* is completed or failed.
C24_TaskLifecycle ==
    /\ [](\A i \in 1..Len(GetAllTasks(local, TRUE)) :
            LET task == GetAllTasks(local, TRUE)[i]
            IN  /\ task.status \in {"queued", "processing", "completed", "failed"}
                /\ task.status = "completed" => "result" \in DOMAIN task
                /\ task.status = "failed" => "error" \in DOMAIN task)
    /\ [][\A taskId \in TaskIds :
            /\ (~TaskStored(local, taskId) /\ TaskStored(local', taskId))
                    => TaskOf(local', taskId).status = "queued"
            /\ (TaskStored(local, taskId) /\ TaskStored(local', taskId)) =>
                    /\ Rank(TaskOf(local', taskId).status)
                            >= Rank(TaskOf(local, taskId).status)
                    /\ TaskOf(local, taskId).status \in {"completed", "failed"}
                            => TaskOf(local', taskId).status
                                    = TaskOf(local, taskId).status]_vars

(***************************************************************************)
(* Claims about the partitions (SpecSettings, SpecStore, SpecClear).       *)
(***************************************************************************)
\* C25: after saveSettings({openaiApiKey: k, ...}) the key k is held under
\* the local partition and by no value of the sync partition.
C25_ApiKeyLocalOnly ==
    (lastOp.op = "saveSettings" /\ "openaiApiKey" \in DOMAIN lastOp.settings) =>
        /\ "openaiApiKey" \notin DOMAIN Get(sync, SETTINGS, EmptyObj)
        /\ SETTINGS \in DOMAIN local
        /\ "openaiApiKey" \in DOMAIN local[SETTINGS]
        /\ local[SETTINGS].openaiApiKey = lastOp.settings.openaiApiKey

\* the keys of a partition whose presence or value a call changed
ChangedKeys(before, after) ==
    {k \in DOMAIN before \cup DOMAIN after :
        ~(k \in DOMAIN before /\ k \in DOMAIN after /\ before[k] = after[k])}

\* the local keys the record types of a method belong under
RoutedLocal(op) ==
    CASE op \in {"saveWorkspace", "setActiveWorkspace"} -> {WORKSPACES}
      [] op = "deleteWorkspace" -> {WORKSPACES, TAB_SETS, HIGHLIGHTS}
      [] op = "saveTabSet"      -> {TAB_SETS}
      [] op = "appendHighlight" -> {HIGHLIGHTS}
      [] OTHER                  -> {}

\* the sync keys the record types of a method belong under
RoutedSync(op) ==
    CASE op \in {"setActiveWorkspace", "deleteWorkspace"} -> {ACTIVE_WORKSPACE}
      [] op = "saveSettings" -> {SETTINGS}
      [] OTHER               -> {}

SettingsFields ==
    DOMAIN defaultSettings \cup {"openaiApiKey", "openaiModel", "notionApiKey"}

\* C26: the local partition holds the workspace collection under
\* mv_workspaces, the tab sets under mv_tab_sets and the highlight map under
\* mv_highlights, the sync partition the settings under mv_settings and the
\* pointer under mv_active_workspace, and nothing else; saveWorkspace,
\* setActiveWorkspace, deleteWorkspace, saveTabSet, appendHighlight and
\* saveSettings change the keys of their own record types only.
C26_PartitionRouting ==
    /\ DOMAIN local \subseteq {WORKSPACES, TAB_SETS, HIGHLIGHTS}
    /\ DOMAIN sync \subseteq {SETTINGS, ACTIVE_WORKSPACE}
    /\ WORKSPACES \in DOMAIN local =>
            \A i \in 1..Len(local[WORKSPACES]) :
                {"id", "name", "isActive"} \subseteq DOMAIN local[WORKSPACES][i]
    /\ TAB_SETS \in DOMAIN local =>
            \A i \in 1..Len(local[TAB_SETS]) :
                {"id", "workspaceId", "tabs"} \subseteq DOMAIN local[TAB_SETS][i]
    /\ HIGHLIGHTS \in DOMAIN local =>
            /\ DOMAIN local[HIGHLIGHTS] \subseteq WorkspaceIds
            /\ \A w \in DOMAIN local[HIGHLIGHTS] :
                    \A i \in 1..Len(local[HIGHLIGHTS][w]) :
                        DOMAIN local[HIGHLIGHTS][w][i] = {"id", "createdAt"}
    /\ SETTINGS \in DOMAIN sync => DOMAIN sync[SETTINGS] \subseteq SettingsFields
    /\ ACTIVE_WORKSPACE \in DOMAIN sync => sync[ACTIVE_WORKSPACE] \in WorkspaceIds
    /\ lastOp.op \in {"saveWorkspace", "setActiveWorkspace", "deleteWorkspace",
                      "saveTabSet", "appendHighlight", "saveSettings"} =>
            /\ ChangedKeys(pre.local, local) \subseteq RoutedLocal(lastOp.op)
            /\ ChangedKeys(pre.sync, sync) \subseteq RoutedSync(lastOp.op)

\* a deleteWorkspace that wrote all four of its keys next to stored settings
C26_Witness ==
    /\ lastOp.op = "deleteWorkspace"
    /\ ChangedKeys(pre.local, local) = {WORKSPACES, TAB_SETS, HIGHLIGHTS}
    /\ ChangedKeys(pre.sync, sync) = {ACTIVE_WORKSPACE}
    /\ SETTINGS \in DOMAIN sync
    /\ StoredIds(local) # {}

\* C27: after a clearAllData() that resolved neither partition holds a key:
\* listWorkspaces() = [], getActiveWorkspace() = null, getSettings() is the
\* defaults, and there is no tab set, highlight, quick note or task.
C27_ClearAllData ==
    lastOp.op = "clearAllData" =>
        /\ DOMAIN sync = {}
        /\ DOMAIN local = {}
        /\ ListWorkspaces(local, TRUE) = <<>>
        /\ GetActiveWorkspace(sync, TRUE) = Null
        /\ GetSettings(sync, TRUE) = defaultSettings
        /\ GetAllTabSets(local) = <<>>
        /\ GetAllHighlights(local) = EmptyObj
        /\ \A k \in QuickNoteKeys : ExtensionStorageGet(Store, k) = Undefined
        /\ GetAllTasks(local, TRUE) = <<>>

\* the store cleared held a workspace, the pointer, changed settings, a tab
\* set, highlights, a quick note and a task
C27_Witness ==
    /\ lastOp.op = "clearAllData"
    /\ ListWorkspaces(pre.local, TRUE) # <<>>
    /\ GetActiveWorkspace(pre.sync, TRUE) = "w1"
    /\ GetSettings(pre.sync, TRUE).theme = "dark"
    /\ GetAllTabSets(pre.local) # <<>>
    /\ Len(HighlightsOf(pre.local, "w1")) = 2
    /\ QuickNoteKey("w1") \in DOMAIN pre.local
    /\ GetAllTasks(pre.local, TRUE) # <<>>
    /\ DOMAIN local = {}

(***************************************************************************)
(* Claims about reads that fail inside a mutation (SpecFail) and about     *)
(* calls of different contexts that overlap (SpecOverlap).                 *)
(***************************************************************************)
\* C28: when saveWorkspace, setActiveWorkspace or deleteWorkspace resolves,
\* every workspace id stored when the call began, the one deleteWorkspace
\* names apart, is still stored, also when a backend get inside the call
\* rejected.
C28_ReadFailureLosesNothing ==
    \A c \in Contexts :
        ( /\ ctx[c].op = "done"
          /\ ctx[c].error = NoError
          /\ ctx[c].call \in {"saveWorkspace", "setActiveWorkspace",
                               "deleteWorkspace"} )
        => LET deleted == IF ctx[c].call = "deleteWorkspace"
                          THEN {ctx[c].arg.id} ELSE {}
           IN  (StoredIds(ctx[c].start.local) \ deleted) \subseteq StoredIds(local)

\* C29: when setActiveWorkspace(a) in one context and setActiveWorkspace(b)
\* in another have both resolved, however their backend steps interleaved,
\* a stored workspace has isActive = true exactly when its id is the one
\* the pointer holds.
C29_ConcurrentActivationConsistent ==
    ( /\ Resolved("popup", "setActiveWorkspace")
      /\ Resolved("background", "setActiveWorkspace") )
    => ~Torn(Store)

\* C30: when deleteWorkspace(W) has resolved in one context and a
\* saveTabSet(W, ...) or appendHighlight(W, ...) that another context began
\* while W was stored has resolved too, no stored tab set has workspaceId W
\* and the highlight map has no group for W.
C30_NoOrphanAfterOverlappingDelete ==
    ( /\ Resolved("popup", "deleteWorkspace")
      /\ ctx["background"].op = "done"
      /\ ctx["background"].error = NoError
      /\ ctx["background"].call \in {"saveTabSet", "appendHighlight"}
      /\ ctx["background"].arg.workspaceId = ctx["popup"].arg.id
      /\ ctx["popup"].arg.id \in StoredIds(ctx["background"].start.local) )
    => /\ GetWorkspaceTabSets(local, ctx["popup"].arg.id) = <<>>
       /\ ctx["popup"].arg.id \notin DOMAIN GetAllHighlights(local)

(***************************************************************************)
(* Claims about the frame and the failures of the composite operations.    *)
(***************************************************************************)
\* the place of an await in deleteWorkspace, in program order
AwaitIndex(pc) ==
    CASE pc = "list"          -> 1
      [] pc = "setWorkspaces" -> 2
      [] pc = "getActive"     -> 3
      [] pc = "pointer"       -> 4
      [] pc = "relist"        -> 5
      [] pc = "flags"         -> 6
      [] pc = "getTabSets"    -> 7
      [] pc = "setTabSets"    -> 8
      [] pc = "getHighlights" -> 9
      [] pc = "setHighlights" -> 10

\* the store st after the writes of deleteWorkspace(id) that come before
\* the await pc, each write applied in full: the collection without id, the
\* pointer cleared and the flags rewritten when id was active, the tab sets
\* without those of id
WritesBefore(st, id, pc, t) ==
    LET n  == AwaitIndex(pc)
        wasActive == GetActiveWorkspace(st.sync, TRUE) = id
        s1 == IF n > 2
              THEN [st EXCEPT !.local = Put(@, WORKSPACES,
                        SelectSeq(ListWorkspaces(st.local, TRUE),
                                  LAMBDA w : w.id # id))]
              ELSE st
        s2 == IF n > 4 /\ wasActive
              THEN [s1 EXCEPT !.sync = Remove(@, ACTIVE_WORKSPACE)]
              ELSE s1
        s3 == IF n > 6 /\ wasActive
              THEN SetActiveWorkspaceSt(s2, Null, t, TRUE)
              ELSE s2
    IN  IF n > 8
        THEN [s3 EXCEPT !.local = Put(@, TAB_SETS,
                    SelectSeq(GetAllTabSets(s3.local),
                              LAMBDA ts : ts.workspaceId # id))]
        ELSE s3

\* C31: a deleteWorkspace(id) that ran alone either resolved with all its
\* effects applied (no backend call failed), or rejected with 'Failed to
\* delete workspace' at a backend call, and then the store is the one the
\* call began with changed by the writes before that backend call and by
\* nothing else: no rollback, and unchanged if the first write failed.
C31_DeleteHasNoRollback ==
    \A c \in Contexts :
        (ctx[c].op = "done" /\ ctx[c].call = "deleteWorkspace" /\ ctx[c].alone) =>
            IF ctx[c].error = NoError
            THEN Store = DeleteWorkspaceSt(ctx[c].start, ctx[c].arg.id, now)
            ELSE /\ ctx[c].error = "Failed to delete workspace"
                 /\ Store = WritesBefore(ctx[c].start, ctx[c].arg.id,
                                         ctx[c].at, now)

\* C32: when saveSettings(partial) resolves, every field of the settings
\* record stored when the call began that partial does not name is stored
\* with the same value afterwards, also when the backend get of the record
\* rejected inside the call.
C32_SaveSettingsKeepsUnnamedFields ==
    \A c \in Contexts :
        (Resolved(c, "saveSettings") /\ ctx[c].alone) =>
            LET stored == Get(ctx[c].start.sync, SETTINGS, EmptyObj)
                after  == Get(sync, SETTINGS, EmptyObj)
            IN  \A f \in DOMAIN stored \ DOMAIN ctx[c].arg.settings :
                    f \in DOMAIN after /\ after[f] = stored[f]

\* C33: between operations the active-workspace pointer is absent or is the
\* id of a workspace in the stored collection.
C33_PointerNamesStoredWorkspace ==
    GetActiveWorkspace(sync, TRUE) \in {Null} \cup StoredIds(local)

\* every key of the partition but the named ones is present with the same
\* value before and after
OtherKeysUnchanged(before, after, keys) ==
    /\ DOMAIN before \ keys = DOMAIN after \ keys
    /\ \A k \in DOMAIN before \ keys : after[k] = before[k]

\* the workspace record but for the named fields
SameButFields(a, b, fields) ==
    /\ DOMAIN a = DOMAIN b
    /\ \A f \in DOMAIN a \ fields : a[f] = b[f]

\* C34: setActiveWorkspace(x) leaves the collection with the same workspaces
\* in the same order; in a record only isActive may differ, and updatedAt
\* in the record of x; tab sets, highlights and settings are as they were.
C34_SetActiveFrame ==
    lastOp.op = "setActiveWorkspace" =>
        LET before == ListWorkspaces(pre.local, TRUE)
            after  == ListWorkspaces(local, TRUE)
        IN  /\ Len(after) = Len(before)
            /\ \A i \in 1..Len(before) :
                    IF before[i].id = lastOp.id
                    THEN SameButFields(before[i], after[i],
                                       {"isActive", "updatedAt"})
                    ELSE SameButFields(before[i], after[i], {"isActive"})
            /\ OtherKeysUnchanged(pre.local, local, {WORKSPACES})
            /\ OtherKeysUnchanged(pre.sync, sync, {ACTIVE_WORKSPACE})

\* setActiveWorkspace('w2') at a later instant than the records' stamps,
\* with w1 active before: w1 is unflagged and keeps its stamp, w2 is
\* flagged and stamped, beside the tab sets, highlights and settings
C34_Witness ==
    /\ lastOp.op = "setActiveWorkspace"
    /\ lastOp.id = "w2"
    /\ StoredIds(pre.local) = {"w1", "w2"}
    /\ GetWorkspace(pre.local, "w1", TRUE).isActive
    /\ ~GetWorkspace(local, "w1", TRUE).isActive
    /\ GetWorkspace(local, "w1", TRUE).updatedAt < now
    /\ GetWorkspace(pre.local, "w2", TRUE).updatedAt < now
    /\ GetWorkspace(local, "w2", TRUE).updatedAt = now
    /\ GetAllTabSets(local) # <<>>
    /\ DOMAIN GetAllHighlights(local) # {}
    /\ SETTINGS \in DOMAIN sync

\* C35: when saveWorkspace, setActiveWorkspace or deleteWorkspace changes
\* a field of a workspace record that was stored before the call and is
\* stored after it, isActive included, the record's updatedAt is the time
\* of the call.
C35_EveryChangeStamps ==
    lastOp.op \in {"saveWorkspace", "setActiveWorkspace", "deleteWorkspace"} =>
        \A id \in StoredIds(pre.local) \cap StoredIds(local) :
            GetWorkspace(local, id, TRUE) # GetWorkspace(pre.local, id, TRUE)
                => GetWorkspace(local, id, TRUE).updatedAt = now

\* C36: deleteWorkspace(id) leaves the tab sets and the highlight groups of
\* the other workspaces with their content and in their order, and the
\* settings; when the pointer did not name id, it leaves the pointer and
\* every remaining workspace record, isActive included, as they were.
C36_DeleteFrame ==
    lastOp.op = "deleteWorkspace" =>
        LET id == lastOp.id
            others(ts) == ts.workspaceId # id
            remaining(w) == w.id # id
        IN  /\ GetAllTabSets(local) = SelectSeq(GetAllTabSets(pre.local), others)
            /\ \A w \in DOMAIN GetAllHighlights(pre.local) \ {id} :
                    /\ w \in DOMAIN GetAllHighlights(local)
                    /\ GetAllHighlights(local)[w] = GetAllHighlights(pre.local)[w]
            /\ OtherKeysUnchanged(pre.sync, sync, {ACTIVE_WORKSPACE})
            /\ GetActiveWorkspace(pre.sync, TRUE) # id =>
                    /\ GetActiveWorkspace(sync, TRUE)
                            = GetActiveWorkspace(pre.sync, TRUE)
                    /\ ListWorkspaces(local, TRUE)
                            = SelectSeq(ListWorkspaces(pre.local, TRUE),
                                        remaining)

\* deleteWorkspace('w2') while w1 is active and flagged: w1's record, flag
\* and the pointer stay, and so do w1's two tab sets, in their order around
\* the removed one, and w1's highlights
C36_Witness ==
    /\ lastOp.op = "deleteWorkspace"
    /\ lastOp.id = "w2"
    /\ "w2" \in StoredIds(pre.local)
    /\ GetActiveWorkspace(sync, TRUE) = "w1"
    /\ GetWorkspace(local, "w1", TRUE) # NullRecord
    /\ GetWorkspace(local, "w1", TRUE).isActive
    /\ Len(GetAllTabSets(pre.local)) = 3
    /\ Len(GetAllTabSets(local)) = 2
    /\ GetAllTabSets(local)[1].id = "ts1"
    /\ GetAllTabSets(local)[2].id = "ts3"
    /\ DOMAIN GetAllHighlights(local) = {"w1"}
    /\ SETTINGS \in DOMAIN sync

\* C37: a SAVE_HIGHLIGHT request is answered success = true only if the
\* highlight is now first in the highlights of the workspace that was
\* active; with no active workspace, or when appendHighlight failed, the
\* answer is success = false and no saved confirmation is shown.
C37_SaveHighlightAnswer ==
    (lastOp.op = "handleSaveClick" /\ lastOp.sent) =>
        LET active   == GetActiveWorkspace(pre.sync, TRUE)
            appended == /\ active # Null
                        /\ HighlightsOf(local, active) # <<>>
                        /\ HighlightsOf(local, active)[1] = lastOp.highlight
        IN  /\ lastOp.response.success => appended
            /\ (active = Null \/ ~lastOp.appendOk) =>
                    /\ ~lastOp.response.success
                    /\ ~lastOp.confirmation

(***************************************************************************)
(* Claims about the useWorkspaces hook (SpecHook).                         *)
(***************************************************************************)
\* C38: a write of the workspace collection by the hook's create, rename
\* or delete keeps, in every workspace record stored before it (the deleted
\* one apart), the contextPrimer and the isActive flag the record had in
\* storage.
C38_HookWritesKeepStoredFields ==
    (\/ lastOp.op \in {"useWorkspaces.createWorkspace",
                       "useWorkspaces.renameWorkspace"}
     \/ (lastOp.op = "ui.deleteWorkspace" /\ lastOp.via = "useWorkspaces")) =>
        LET deleted == IF lastOp.op = "ui.deleteWorkspace"
                       THEN {lastOp.id} ELSE {}
        IN  \A id \in StoredIds(pre.local) \ deleted :
                LET before == GetWorkspace(pre.local, id, TRUE)
                    after  == GetWorkspace(local, id, TRUE)
                IN  /\ after # NullRecord
                    /\ \A f \in {"contextPrimer", "isActive"} \cap DOMAIN before :
                            f \in DOMAIN after /\ after[f] = before[f]

\* C39: when the toggleFocusMode request is rejected or answered with
\* success = false, the hook's focusModeEnabled ends with the value it had
\* before the call.
C39_ToggleFocusModeReverts ==
    (lastOp.op = "useWorkspaces.toggleFocusMode" /\ lastOp.failed) =>
        ui.focusModeEnabled = lastOp.focusModeEnabled

(***************************************************************************)
(* Claims about tab capture (SpecTabs).                                    *)
(***************************************************************************)
WebSchemes == {"http", "https"}

\* a URL of a scheme that is not a web scheme
Internal(url) == url # <<>> /\ url[1] \notin WebSchemes

UrlsOf(tabs) == [i \in 1..Len(tabs) |-> tabs[i].url]

\* C40: the TabRefs stored by saveCurrentTabSet and those built by
\* createTabSet hold no URL of a browser-internal scheme, and their URLs are
\* those of the window's tabs with a web URL, in the window's order.
C40_CaptureExcludesInternalUrls ==
    lastOp.op \in {"saveCurrentTabSet", "createTabSet"} =>
        LET captured == IF lastOp.op = "saveCurrentTabSet"
                        THEN GetTabSet(local, ret, TRUE).tabs
                        ELSE lastOp.tabs
            web(url) == url # <<>> /\ url[1] \in WebSchemes
        IN  /\ \A i \in 1..Len(captured) : ~Internal(captured[i].url)
            /\ UrlsOf(captured) = SelectSeq(UrlsOf(lastOp.window), web)

====
